---------------------------- MODULE Spec2Model ----------------------------
(***************************************************************************)
(* A model of the mrc crate: the 1024-byte header codec (header.rs), the   *)
(* mode registry (mode.rs), the typed data blocks (lib.rs) and the views   *)
(* (view.rs).                                                              *)
(*                                                                         *)
(* Conventions.                                                            *)
(*  - A byte array is a function over 0..n-1, so that every index is the   *)
(*    index the source uses.                                               *)
(*  - An i32 is an integer in -2^31 .. 2^31-1.                             *)
(*  - An f32 is carried by its IEEE-754 bit pattern, read as an i32        *)
(*    (f32::to_bits as i32): the codec only moves bits, it never does      *)
(*    float arithmetic.                                                    *)
(*  - A usize is carried by its representative in (-2^31, 2^31) modulo the *)
(*    machine word: a negative representative r stands for the huge value  *)
(*    2^w + r that `x as usize` gives for a negative i32.                  *)
(***************************************************************************)
EXTENDS Integers, Sequences, FiniteSets, TLC

VARIABLES
    r,        \* codec: the caller's Header handed to encode_to_bytes
    raw,      \* codec: the caller's 1024 bytes handed to decode_from_bytes
    out,      \* codec: the 1024-byte output buffer of encode_to_bytes
    dec,      \* codec: the Header returned by decode_from_bytes
    acc,      \* codec: the argument and the result of the last accessor call
    cpc,      \* codec: position of the codec scenario
    vh,       \* header: the Header whose validate() / data_size() is called
    hres,     \* header: what the call returned
    hpc,      \* header: position of the header scenario
    vin,      \* view: the Header handed to MrcView::new / MrcViewMut::new
    vbuf,     \* view: the caller's buffer (extension bytes, then data bytes)
    view,     \* view: the MrcView / MrcViewMut over vbuf, "none" when there is none
    vvals,    \* view: the values handed to the last write_T
    vres,     \* view: what the last call returned
    vpc,      \* view: position of the view scenario
    blk,      \* block: the DataBlock / DataBlockMut (bytes, mode, file_endian, voxel_count)
    bvals,    \* block: the values handed to the last set_T
    bout,     \* block: the out slice handed to the last read_T_into, afterwards
    bres,     \* block: what the last call returned
    bpc,      \* block: position of the block scenario
    sin,      \* sample: the arguments of the sample codec or stamp call
    sres,     \* sample: the bytes and values the calls produced
    spc,      \* sample: position of the sample scenario
    fin,      \* file: the Header handed to MrcFile::create
    disk,     \* file: the file at the path (whether it exists, its bytes)
    mf,       \* file: the MrcFile returned by create, "none" when there is none
    flast,    \* file: the extension and data bytes last written with success
    fres,     \* file: what the last call returned
    fpc,      \* file: position of the file scenario
    overflow_checks  \* the build: TRUE when arithmetic overflow panics (debug
                     \* profile), FALSE when it wraps (release profile)

codecVars == <<r, raw, out, dec, acc, cpc>>

headerVars == <<vh, hres, hpc>>

viewVars == <<vin, vbuf, view, vvals, vres, vpc>>

blockVars == <<blk, bvals, bout, bres, bpc>>

sampleVars == <<sin, sres, spc>>

fileVars == <<fin, disk, mf, flast, fres, fpc>>

vars == <<codecVars, headerVars, viewVars, blockVars, sampleVars, fileVars,
          overflow_checks>>

\* the view scenario is not running
ViewIdle ==
    /\ vin = "none"
    /\ vbuf = "none"
    /\ view = "none"
    /\ vvals = "none"
    /\ vres = "none"
    /\ vpc = "idle"

\* the block scenario is not running
BlockIdle ==
    /\ blk = "none"
    /\ bvals = "none"
    /\ bout = "none"
    /\ bres = "none"
    /\ bpc = "idle"

\* the sample scenario is not running
SampleIdle ==
    /\ sin = "none"
    /\ sres = "none"
    /\ spc = "idle"

\* the file scenario is not running
FileIdle ==
    /\ fin = "none"
    /\ disk = "none"
    /\ mf = "none"
    /\ flast = "none"
    /\ fres = "none"
    /\ fpc = "idle"

---------------------------------------------------------------------------
(* Bounds of the model *)

\* seeds of the sample headers / sample byte buffers are 0..MaxSeed
MaxSeed == 3

\* the dimensions nx, ny, nz of the header scenario are drawn from -1..MaxDim
MaxDim == 3

\* the typed writers are handed at most MaxVals values
MaxVals == 2

\* nsymbt of the view scenario is drawn from -1..MaxExt
MaxExt == 2

\* the blocks of the block scenario hold 0..MaxBytes bytes
MaxBytes == 8

\* the blocks of the block scenario declare 0..MaxVoxels samples
MaxVoxels == 3

\* the getters are handed usize::MAX and 0..MaxIndex
MaxIndex == 3

---------------------------------------------------------------------------
(* Byte arrays *)

\* the array [s[1], ..., s[n]] indexed from 0
ArrayOf(s) == [i \in 0..(Len(s) - 1) |-> s[i + 1]]

\* the number of elements of a 0-based array
ALen(a) == Cardinality(DOMAIN a)

\* a[from..to) as a 0-based array (a slice &a[from..to])
Slice(a, from, to) == [i \in 0..(to - from - 1) |-> a[from + i]]

\* copy_from_slice that leaves the last byte of the range as it was
CopyFromSlice_all_but_last(dst, off, src) ==
    [i \in DOMAIN dst |->
        IF i >= off /\ i < (off + ALen(src)) - 1 THEN src[i - off] ELSE dst[i]]

\* dst[off..off+n].copy_from_slice(src), n = src.len()
CopyFromSlice(dst, off, src) ==
    LET n == ALen(src)
    IN  [i \in DOMAIN dst |->
            IF off <= i /\ i < off + n THEN src[i - off] ELSE dst[i]]

---------------------------------------------------------------------------
(* Integer <-> bytes (core::num) as header.rs and lib.rs call them *)

\* the low 31 bits of an i32, as a natural number
Low31(v) == IF v >= 0 THEN v ELSE (v + 2147483647) + 1

i32_to_le_bytes(v) ==
    LET lo == Low31(v)
    IN  ArrayOf(<< lo % 256,
                   (lo \div 256) % 256,
                   (lo \div 65536) % 256,
                   (lo \div 16777216) + (IF v < 0 THEN 128 ELSE 0) >>)

i32_to_be_bytes(v) ==
    LET le == i32_to_le_bytes(v)
    IN  ArrayOf(<< le[3], le[2], le[1], le[0] >>)

i32_from_le_bytes(arr) ==
    LET lo == ((arr[3] % 128) * 16777216) + (arr[2] * 65536) + (arr[1] * 256) + arr[0]
    IN  IF arr[3] >= 128 THEN (lo - 2147483647) - 1 ELSE lo

i32_from_be_bytes(arr) ==
    i32_from_le_bytes(ArrayOf(<< arr[3], arr[2], arr[1], arr[0] >>))

\* f32::to_le_bytes is to_bits().to_le_bytes(); an f32 is its bit pattern
f32_to_le_bytes(x) == i32_to_le_bytes(x)

f32_to_be_bytes(x) == i32_to_be_bytes(x)

f32_from_le_bytes(arr) == i32_from_le_bytes(arr)

f32_from_be_bytes(arr) == i32_from_be_bytes(arr)

---------------------------------------------------------------------------
(* FileEndian (lib.rs) *)

FileEndian == {"LittleEndian", "BigEndian"}

from_machst_wrong_bytes(machst) ==
    IF machst[0] = 68 /\ machst[1] = 68 THEN "LittleEndian"
    ELSE IF machst[2] = 17 /\ machst[3] = 17 THEN "BigEndian"
    ELSE "LittleEndian"

\* 0x44 = 68, 0x11 = 17
from_machst(machst) ==
    IF machst[0] = 68 /\ machst[1] = 68 THEN "LittleEndian"
    ELSE IF machst[0] = 17 /\ machst[1] = 17 THEN "BigEndian"
    ELSE "LittleEndian"

to_machst(e) ==
    IF e = "LittleEndian" THEN ArrayOf(<<68, 68, 0, 0>>)
    ELSE ArrayOf(<<17, 17, 0, 0>>)

---------------------------------------------------------------------------
(* Header (header.rs) *)

\* b"MAP " = 0x4D 0x41 0x50 0x20
MAP_ID == ArrayOf(<<77, 65, 80, 32>>)

\* Header::new(): the floats are the bit patterns of 1.0, 90.0, +inf, -inf, -1.0
HeaderNew ==
    [ nx |-> 0, ny |-> 0, nz |-> 0,
      mode |-> 2,
      nxstart |-> 0, nystart |-> 0, nzstart |-> 0,
      mx |-> 0, my |-> 0, mz |-> 0,
      xlen |-> 1065353216, ylen |-> 1065353216, zlen |-> 1065353216,
      alpha |-> 1119092736, beta |-> 1119092736, gamma |-> 1119092736,
      mapc |-> 1, mapr |-> 2, maps |-> 3,
      dmin |-> 2139095040, dmax |-> -8388608, dmean |-> -8388608,
      ispg |-> 1,
      nsymbt |-> 0,
      extra |-> [i \in 0..99 |-> IF i = 12 THEN 173 ELSE IF i = 13 THEN 78 ELSE 0],
      origin |-> [i \in 0..2 |-> 0],
      map |-> MAP_ID,
      machst |-> ArrayOf(<<68, 68, 0, 0>>),
      rms |-> -1082130432,
      nlabl |-> 0,
      label |-> [i \in 0..799 |-> 0] ]

detect_endian(h) == from_machst(h.machst)

\* Header::exttyp(): extra[8..12] read with i32::from_le_bytes
exttyp(h) ==
    i32_from_le_bytes(ArrayOf(<< h.extra[8], h.extra[9], h.extra[10], h.extra[11] >>))

\* Header::set_exttyp(value): value.to_le_bytes() copied into extra[8..12]
set_exttyp(h, value) ==
    [h EXCEPT !.extra = CopyFromSlice(h.extra, 8, i32_to_le_bytes(value))]

\* nversion reading extra[12..16] little-endian whatever the stamp says
nversion_always_le(h) ==
    i32_from_le_bytes(ArrayOf(<< h.extra[12], h.extra[13], h.extra[14], h.extra[15] >>))

\* Header::nversion(): extra[12..16] read in the byte order of the stamp
nversion(h) ==
    LET file_endian == detect_endian(h)
        arr == ArrayOf(<< h.extra[12], h.extra[13], h.extra[14], h.extra[15] >>)
    IN  IF file_endian = "LittleEndian" THEN i32_from_le_bytes(arr)
        ELSE i32_from_be_bytes(arr)

\* Header::set_nversion(value): value written into extra[12..16] in the byte
\* order of the stamp
set_nversion(h, value) ==
    LET file_endian == detect_endian(h)
        bytes == IF file_endian = "LittleEndian" THEN i32_to_le_bytes(value)
                 ELSE i32_to_be_bytes(value)
    IN  [h EXCEPT !.extra = CopyFromSlice(h.extra, 12, bytes)]

decode_i32_ignores_endian(bytes, file_endian, offset) ==
    i32_from_le_bytes(ArrayOf(<< bytes[offset], bytes[offset + 1],
                                 bytes[offset + 2], bytes[offset + 3] >>))

\* the closure decode_i32 of decode_from_bytes
decode_i32(bytes, file_endian, offset) ==
    LET arr == ArrayOf(<< bytes[offset], bytes[offset + 1],
                          bytes[offset + 2], bytes[offset + 3] >>)
    IN  IF file_endian = "LittleEndian" THEN i32_from_le_bytes(arr)
        ELSE i32_from_be_bytes(arr)

\* the closure decode_f32 of decode_from_bytes
decode_f32(bytes, file_endian, offset) ==
    LET arr == ArrayOf(<< bytes[offset], bytes[offset + 1],
                          bytes[offset + 2], bytes[offset + 3] >>)
    IN  IF file_endian = "LittleEndian" THEN f32_from_le_bytes(arr)
        ELSE f32_from_be_bytes(arr)

\* Header::decode_from_bytes: every field of Header::new() is overwritten
decode_from_bytes(bytes) ==
    LET machst == ArrayOf(<< bytes[212], bytes[213], bytes[214], bytes[215] >>)
        file_endian == from_machst(machst)
    IN  [ nx |-> decode_i32(bytes, file_endian, 0),
          ny |-> decode_i32(bytes, file_endian, 4),
          nz |-> decode_i32(bytes, file_endian, 8),
          mode |-> decode_i32(bytes, file_endian, 12),
          nxstart |-> decode_i32(bytes, file_endian, 16),
          nystart |-> decode_i32(bytes, file_endian, 20),
          nzstart |-> decode_i32(bytes, file_endian, 24),
          mx |-> decode_i32(bytes, file_endian, 28),
          my |-> decode_i32(bytes, file_endian, 32),
          mz |-> decode_i32(bytes, file_endian, 36),
          xlen |-> decode_f32(bytes, file_endian, 40),
          ylen |-> decode_f32(bytes, file_endian, 44),
          zlen |-> decode_f32(bytes, file_endian, 48),
          alpha |-> decode_f32(bytes, file_endian, 52),
          beta |-> decode_f32(bytes, file_endian, 56),
          gamma |-> decode_f32(bytes, file_endian, 60),
          mapc |-> decode_i32(bytes, file_endian, 64),
          mapr |-> decode_i32(bytes, file_endian, 68),
          maps |-> decode_i32(bytes, file_endian, 72),
          dmin |-> decode_f32(bytes, file_endian, 76),
          dmax |-> decode_f32(bytes, file_endian, 80),
          dmean |-> decode_f32(bytes, file_endian, 84),
          ispg |-> decode_i32(bytes, file_endian, 88),
          nsymbt |-> decode_i32(bytes, file_endian, 92),
          extra |-> Slice(bytes, 96, 196),
          origin |-> [i \in 0..2 |-> decode_f32(bytes, file_endian, 196 + (4 * i))],
          map |-> Slice(bytes, 208, 212),
          machst |-> Slice(bytes, 212, 216),
          rms |-> decode_f32(bytes, file_endian, 216),
          nlabl |-> decode_i32(bytes, file_endian, 220),
          label |-> Slice(bytes, 224, 1024) ]

\* the macro encode_i32! of encode_to_bytes
encode_i32(o, file_endian, offset, value) ==
    CopyFromSlice(o, offset,
        IF file_endian = "LittleEndian" THEN i32_to_le_bytes(value)
        ELSE i32_to_be_bytes(value))

encode_f32_always_le(o, file_endian, offset, value) ==
    CopyFromSlice(o, offset, f32_to_le_bytes(value))

\* the macro encode_f32! of encode_to_bytes
encode_f32(o, file_endian, offset, value) ==
    CopyFromSlice(o, offset,
        IF file_endian = "LittleEndian" THEN f32_to_le_bytes(value)
        ELSE f32_to_be_bytes(value))

\* Header::encode_to_bytes(&self, out): the writes in the order of the source
encode_to_bytes(h, o) ==
    LET e   == detect_endian(h)
        o1  == encode_i32(o,   e, 0,  h.nx)
        o2  == encode_i32(o1,  e, 4,  h.ny)
        o3  == encode_i32(o2,  e, 8,  h.nz)
        o4  == encode_i32(o3,  e, 12, h.mode)
        o5  == encode_i32(o4,  e, 16, h.nxstart)
        o6  == encode_i32(o5,  e, 20, h.nystart)
        o7  == encode_i32(o6,  e, 24, h.nzstart)
        o8  == encode_i32(o7,  e, 28, h.mx)
        o9  == encode_i32(o8,  e, 32, h.my)
        o10 == encode_i32(o9,  e, 36, h.mz)
        o11 == encode_f32(o10, e, 40, h.xlen)
        o12 == encode_f32(o11, e, 44, h.ylen)
        o13 == encode_f32(o12, e, 48, h.zlen)
        o14 == encode_f32(o13, e, 52, h.alpha)
        o15 == encode_f32(o14, e, 56, h.beta)
        o16 == encode_f32(o15, e, 60, h.gamma)
        o17 == encode_i32(o16, e, 64, h.mapc)
        o18 == encode_i32(o17, e, 68, h.mapr)
        o19 == encode_i32(o18, e, 72, h.maps)
        o20 == encode_f32(o19, e, 76, h.dmin)
        o21 == encode_f32(o20, e, 80, h.dmax)
        o22 == encode_f32(o21, e, 84, h.dmean)
        o23 == encode_i32(o22, e, 88, h.ispg)
        o24 == encode_i32(o23, e, 92, h.nsymbt)
        o25 == CopyFromSlice(o24, 96, h.extra)
        o26 == encode_f32(o25, e, 196, h.origin[0])
        o27 == encode_f32(o26, e, 200, h.origin[1])
        o28 == encode_f32(o27, e, 204, h.origin[2])
        o29 == CopyFromSlice(o28, 208, h.map)
        o30 == CopyFromSlice(o29, 212, h.machst)
        o31 == encode_f32(o30, e, 216, h.rms)
        o32 == encode_i32(o31, e, 220, h.nlabl)
    IN  CopyFromSlice(o32, 224, h.label)

---------------------------------------------------------------------------
(* Mode (mode.rs) *)

\* Mode::from_i32; "None" is Option::None
\* Mode::from_i32 without the arm of code 12
from_i32_without_float16(mode) ==
    CASE mode = 0   -> "Int8"
      [] mode = 1   -> "Int16"
      [] mode = 2   -> "Float32"
      [] mode = 3   -> "Int16Complex"
      [] mode = 4   -> "Float32Complex"
      [] mode = 6   -> "Uint16"
      [] mode = 101 -> "Packed4Bit"
      [] OTHER      -> "None"

from_i32(mode) ==
    CASE mode = 0   -> "Int8"
      [] mode = 1   -> "Int16"
      [] mode = 2   -> "Float32"
      [] mode = 3   -> "Int16Complex"
      [] mode = 4   -> "Float32Complex"
      [] mode = 6   -> "Uint16"
      [] mode = 12  -> "Float16"
      [] mode = 101 -> "Packed4Bit"
      [] OTHER      -> "None"

\* Mode::byte_size
byte_size(m) ==
    CASE m = "Int8"           -> 1
      [] m = "Int16"          -> 2
      [] m = "Float32"        -> 4
      [] m = "Int16Complex"   -> 4
      [] m = "Float32Complex" -> 8
      [] m = "Uint16"         -> 2
      [] m = "Float16"        -> 2
      [] m = "Packed4Bit"     -> 1

---------------------------------------------------------------------------
(* usize arithmetic.  A value is its representative modulo the machine    *)
(* word: a >= 0 is the small value a, a < 0 is the huge value 2^w + a.    *)
(* Every operation gives the wrapped result and whether the true result   *)
(* left the machine word (which panics when overflow_checks is on).       *)

\* `v as usize` for an i32 v: sign extension
as_usize(v) == v

\* a * b on usize
usize_mul(a, b) ==
    [ val |-> a * b,
      ovf |-> \/ (a < 0 /\ b < 0)
              \/ (a < 0 /\ b > 1)
              \/ (b < 0 /\ a > 1) ]

\* a + b on usize
usize_add(a, b) ==
    [ val |-> a + b,
      ovf |-> \/ (a < 0 /\ b < 0)
              \/ (a < 0 /\ b >= 0 /\ a + b >= 0)
              \/ (b < 0 /\ a >= 0 /\ a + b >= 0) ]

\* a < b on usize
usize_lt(a, b) ==
    IF (a < 0) = (b < 0) THEN a < b ELSE b < 0

---------------------------------------------------------------------------
(* Header::data_size and Header::validate (header.rs) *)

data_size_complex16_as_2(h) ==
    LET n1 == usize_mul(as_usize(h.nx), as_usize(h.ny))
        n  == usize_mul(n1.val, as_usize(h.nz))
        bytes_per_pixel ==
            CASE h.mode = 0 -> 1 [] h.mode = 1 -> 2 [] h.mode = 2 -> 4
              [] h.mode = 3 -> 2 [] h.mode = 4 -> 8 [] h.mode = 6 -> 2
              [] h.mode = 12 -> 2 [] h.mode = 101 -> 1 [] OTHER -> 0
        res == usize_mul(n.val, bytes_per_pixel)
    IN  [ val |-> res.val, ovf |-> n1.ovf \/ n.ovf \/ res.ovf ]

\* Header::data_size: the wrapped value and whether a multiplication overflowed
data_size(h) ==
    LET n1 == usize_mul(as_usize(h.nx), as_usize(h.ny))
        n  == usize_mul(n1.val, as_usize(h.nz))
        bytes_per_pixel ==
            CASE h.mode = 0   -> 1
              [] h.mode = 1   -> 2
              [] h.mode = 2   -> 4
              [] h.mode = 3   -> 4
              [] h.mode = 4   -> 8
              [] h.mode = 6   -> 2
              [] h.mode = 12  -> 2
              [] h.mode = 101 -> 1
              [] OTHER        -> 0
        res == usize_mul(n.val, bytes_per_pixel)
    IN  [ val |-> res.val, ovf |-> n1.ovf \/ n.ovf \/ res.ovf ]

validate_accepts_zero_nz(h) ==
    /\ h.nx > 0
    /\ h.ny > 0
    /\ h.nz >= 0
    /\ h.mode \in {0, 1, 2, 3, 4, 6, 12, 101}
    /\ h.map = MAP_ID

\* Header::validate
validate(h) ==
    /\ h.nx > 0
    /\ h.ny > 0
    /\ h.nz > 0
    /\ h.mode \in {0, 1, 2, 3, 4, 6, 12, 101}
    /\ h.map = MAP_ID

---------------------------------------------------------------------------
(* The codec scenario: inputs *)

\* i32 values (and f32 bit patterns) whose four bytes differ, with the
\* extremes; 2143289344 is a NaN, -2147483648 is -0.0 as an f32
I32Samples ==
    << 0, 1, -1, 258, 16909060, (-2147483647) - 1, 2147483647, -16909061,
       2143289344, 1065353216 >>

Pick(k) == I32Samples[(k % Len(I32Samples)) + 1]

\* machine stamps: the two standard ones, the two with non-zero padding,
\* and unrecognised ones (which from_machst reads as little-endian)
MachstSamples ==
    { ArrayOf(<<68, 68, 0, 0>>), ArrayOf(<<17, 17, 0, 0>>),
      ArrayOf(<<68, 68, 1, 2>>), ArrayOf(<<17, 17, 3, 4>>),
      ArrayOf(<<0, 0, 0, 0>>), ArrayOf(<<68, 17, 0, 0>>),
      ArrayOf(<<0, 0, 17, 17>>) }

\* a header whose fields all differ from their neighbours
SampleHeader(s, m) ==
    [ nx |-> Pick(s + 1), ny |-> Pick(s + 2), nz |-> Pick(s + 3),
      mode |-> Pick(s + 4),
      nxstart |-> Pick(s + 5), nystart |-> Pick(s + 6), nzstart |-> Pick(s + 7),
      mx |-> Pick(s + 8), my |-> Pick(s + 9), mz |-> Pick(s + 10),
      xlen |-> Pick(s + 11), ylen |-> Pick(s + 12), zlen |-> Pick(s + 13),
      alpha |-> Pick(s + 14), beta |-> Pick(s + 15), gamma |-> Pick(s + 16),
      mapc |-> Pick(s + 17), mapr |-> Pick(s + 18), maps |-> Pick(s + 19),
      dmin |-> Pick(s + 20), dmax |-> Pick(s + 21), dmean |-> Pick(s + 22),
      ispg |-> Pick(s + 23),
      nsymbt |-> Pick(s + 24),
      extra |-> [i \in 0..99 |-> ((7 * i) + s + 1) % 256],
      origin |-> [i \in 0..2 |-> Pick(s + 25 + i)],
      map |-> IF s % 2 = 0 THEN MAP_ID ELSE ArrayOf(<<s, 1, 2, 3>>),
      machst |-> m,
      rms |-> Pick(s + 28),
      nlabl |-> Pick(s + 29),
      label |-> [i \in 0..799 |-> ((3 * i) + (5 * s) + 2) % 256] ]

HeaderInputs == { SampleHeader(s, m) : s \in 0..MaxSeed, m \in MachstSamples }

\* 1024 bytes of a file: a stride pattern, with the machine stamp m
RawBytes(a, s, m) ==
    [i \in 0..1023 |->
        IF 212 <= i /\ i <= 215 THEN m[i - 212]
        ELSE ((a * i) + (37 * s) + (i \div 256)) % 256]

RawInputs ==
    { RawBytes(a, s, m) : a \in {1, 3, 251}, s \in 0..MaxSeed, m \in MachstSamples }

\* the previous contents of the caller's output buffer
Prefill == { [i \in 0..1023 |-> 0], [i \in 0..1023 |-> 255] }

---------------------------------------------------------------------------
(* The codec scenario: a record is encoded and decoded back, or a file's  *)
(* bytes are decoded and encoded back                                     *)

\* the header scenario is not running
HeaderIdle ==
    /\ vh = "none"
    /\ hres = "none"
    /\ hpc = "idle"

InitCodec ==
    /\ HeaderIdle
    /\ ViewIdle
    /\ BlockIdle
    /\ SampleIdle
    /\ FileIdle
    /\ overflow_checks = FALSE
    /\ out \in Prefill
    /\ dec = "none"
    /\ acc = "none"
    /\ \/ /\ cpc = "have_record"
          /\ r \in HeaderInputs
          /\ raw = "none"
       \/ /\ cpc = "have_bytes"
          /\ r = "none"
          /\ raw \in RawInputs

\* r.encode_to_bytes(&mut out)
EncodeRecord ==
    /\ cpc = "have_record"
    /\ out' = encode_to_bytes(r, out)
    /\ cpc' = "encoded"
    /\ UNCHANGED <<r, raw, dec, acc>>

\* Header::decode_from_bytes(&out) of the bytes just encoded
DecodeEncoded ==
    /\ cpc = "encoded"
    /\ dec' = decode_from_bytes(out)
    /\ cpc' = "roundtrip_done"
    /\ UNCHANGED <<r, raw, out, acc>>

\* Header::decode_from_bytes(&raw)
DecodeRaw ==
    /\ cpc = "have_bytes"
    /\ dec' = decode_from_bytes(raw)
    /\ cpc' = "decoded"
    /\ UNCHANGED <<r, raw, out, acc>>

\* dec.encode_to_bytes(&mut out) of the header just decoded
EncodeDecoded ==
    /\ cpc = "decoded"
    /\ out' = encode_to_bytes(dec, out)
    /\ cpc' = "reencoded"
    /\ UNCHANGED <<r, raw, dec, acc>>

\* the values handed to set_nversion / set_exttyp
AccessorSamples == { I32Samples[k] : k \in 1..Len(I32Samples) }

\* r.set_nversion(v)
SetNversion ==
    /\ cpc = "have_record"
    /\ \E v \in AccessorSamples :
          /\ r' = set_nversion(r, v)
          /\ acc' = [op |-> "set_nversion", arg |-> v, val |-> 0]
    /\ cpc' = "nversion_set"
    /\ UNCHANGED <<raw, out, dec>>

\* r.nversion() after r.set_nversion(v)
Nversion ==
    /\ cpc = "nversion_set"
    /\ acc' = [op |-> "nversion", arg |-> acc.arg, val |-> nversion(r)]
    /\ cpc' = "nversion_read"
    /\ UNCHANGED <<r, raw, out, dec>>

\* dec.nversion() of the header decoded from the file's bytes
NversionOfDecoded ==
    /\ cpc = "decoded"
    /\ acc' = [op |-> "nversion", arg |-> 0, val |-> nversion(dec)]
    /\ cpc' = "decoded_nversion"
    /\ UNCHANGED <<r, raw, out, dec>>

\* r.set_exttyp(v)
SetExttyp ==
    /\ cpc = "have_record"
    /\ \E v \in AccessorSamples :
          /\ r' = set_exttyp(r, v)
          /\ acc' = [op |-> "set_exttyp", arg |-> v, val |-> 0]
    /\ cpc' = "exttyp_set"
    /\ UNCHANGED <<raw, out, dec>>

\* r.exttyp() after r.set_exttyp(v)
Exttyp ==
    /\ cpc = "exttyp_set"
    /\ acc' = [op |-> "exttyp", arg |-> acc.arg, val |-> exttyp(r)]
    /\ cpc' = "exttyp_read"
    /\ UNCHANGED <<r, raw, out, dec>>

\* dec.exttyp() of the header decoded from the file's bytes
ExttypOfDecoded ==
    /\ cpc = "decoded"
    /\ acc' = [op |-> "exttyp", arg |-> 0, val |-> exttyp(dec)]
    /\ cpc' = "decoded_exttyp"
    /\ UNCHANGED <<r, raw, out, dec>>

\* a step of the codec scenario leaves the rest alone
CodecFrame ==
    UNCHANGED <<headerVars, viewVars, blockVars, sampleVars, fileVars,
                overflow_checks>>

NextCodec ==
    \/ EncodeRecord /\ CodecFrame
    \/ DecodeEncoded /\ CodecFrame
    \/ DecodeRaw /\ CodecFrame
    \/ EncodeDecoded /\ CodecFrame
    \/ SetNversion /\ CodecFrame
    \/ Nversion /\ CodecFrame
    \/ NversionOfDecoded /\ CodecFrame
    \/ SetExttyp /\ CodecFrame
    \/ Exttyp /\ CodecFrame
    \/ ExttypOfDecoded /\ CodecFrame

SpecCodec == InitCodec /\ [][NextCodec]_vars

---------------------------------------------------------------------------
(* The header scenario: validate() and data_size() of a populated header *)

\* the codec scenario is not running
CodecIdle ==
    /\ r = "none"
    /\ raw = "none"
    /\ out = "none"
    /\ dec = "none"
    /\ acc = "none"
    /\ cpc = "idle"

DimSamples == -1..MaxDim

\* the registered codes, their neighbours and far values (i32::MIN, i32::MAX)
ModeSamples ==
    { (-2147483647) - 1, -1, 0, 1, 2, 3, 4, 5, 6, 7, 11, 12, 13, 100, 101, 102,
      2147483647 }

\* b"MAP ", b"MAP\0", b"map ", b" PAM"
MapSamples ==
    { MAP_ID, ArrayOf(<<77, 65, 80, 0>>), ArrayOf(<<109, 97, 112, 32>>),
      ArrayOf(<<32, 80, 65, 77>>) }

AxisSamples == 0..4

IspgSamples == {-1, 0, 1, 100, 230, 231, 399, 400, 401, 630, 631, 1000}

\* Header::new() with the public fields the caller then assigns
Populated(nx, ny, nz, mode, map, axes, ispg) ==
    [HeaderNew EXCEPT !.nx = nx, !.ny = ny, !.nz = nz, !.mode = mode, !.map = map,
                      !.mapc = axes[1], !.mapr = axes[2], !.maps = axes[3],
                      !.ispg = ispg]

HeaderScenarioInputs ==
    \* every dimension triple with every registered mode and code 5
    { Populated(nx, ny, nz, m, MAP_ID, <<1, 2, 3>>, 1) :
        nx \in DimSamples, ny \in DimSamples, nz \in DimSamples,
        m \in {0, 1, 2, 3, 4, 5, 6, 12, 101} }
    \cup
    \* the dimensions of the tests, with every mode sample and signature
    { Populated(d[1], d[2], d[3], m, id, <<1, 2, 3>>, 1) :
        d \in {<<10, 20, 30>>, <<1, 1, 1>>, <<0, 0, 0>>},
        m \in ModeSamples, id \in MapSamples }
    \cup
    \* every axis triple over 0..4
    { Populated(10, 10, 10, 2, MAP_ID, <<c, w, s>>, 1) :
        c \in AxisSamples, w \in AxisSamples, s \in AxisSamples }
    \cup
    \* the space groups of the tests
    { Populated(10, 10, 10, 2, MAP_ID, <<1, 2, 3>>, g) : g \in IspgSamples }

InitHeader ==
    /\ CodecIdle
    /\ ViewIdle
    /\ BlockIdle
    /\ SampleIdle
    /\ FileIdle
    /\ overflow_checks \in BOOLEAN
    /\ vh \in HeaderScenarioInputs
    /\ hres = "none"
    /\ hpc = "input"

\* vh.validate()
Validate ==
    /\ hpc = "input"
    /\ hres' = validate(vh)
    /\ hpc' = "validated"
    /\ UNCHANGED vh

\* vh.data_size(): an overflowing multiplication panics in a build with
\* overflow checks and wraps otherwise
DataSize ==
    /\ hpc = "input"
    /\ LET s == data_size(vh)
       IN  hres' = IF s.ovf /\ overflow_checks THEN "panic" ELSE s.val
    /\ hpc' = "sized"
    /\ UNCHANGED vh

\* Mode::from_i32(vh.mode)
FromI32 ==
    /\ hpc = "input"
    /\ hres' = from_i32(vh.mode)
    /\ hpc' = "converted"
    /\ UNCHANGED vh

\* a step of the header scenario leaves the rest alone
HeaderFrame ==
    UNCHANGED <<codecVars, viewVars, blockVars, sampleVars, fileVars,
                overflow_checks>>

NextHeader ==
    \/ Validate /\ HeaderFrame
    \/ DataSize /\ HeaderFrame
    \/ FromI32 /\ HeaderFrame

SpecHeader == InitHeader /\ [][NextHeader]_vars

---------------------------------------------------------------------------
(* Results of fallible calls: Ok(v), Err(e), or a panic of the thread *)

Ok(v) == [tag |-> "Ok", val |-> v]

Err(e) == [tag |-> "Err", val |-> e]

Panic == [tag |-> "Panic", val |-> "panic"]

---------------------------------------------------------------------------
(* Sample types and their file encodings (lib.rs)                         *)
(* An i16 is an integer in -2^15 .. 2^15-1, a u16 in 0 .. 2^16-1, an i8   *)
(* in -128 .. 127, a u8 in 0 .. 255.                                       *)

i16_to_le_bytes(v) ==
    LET u == IF v >= 0 THEN v ELSE v + 65536
    IN  ArrayOf(<< u % 256, u \div 256 >>)

i16_to_be_bytes(v) ==
    LET le == i16_to_le_bytes(v)
    IN  ArrayOf(<< le[1], le[0] >>)

i16_from_le_bytes(arr) ==
    LET u == (arr[1] * 256) + arr[0]
    IN  IF u >= 32768 THEN u - 65536 ELSE u

i16_from_be_bytes(arr) == i16_from_le_bytes(ArrayOf(<< arr[1], arr[0] >>))

u16_to_le_bytes(v) == ArrayOf(<< v % 256, v \div 256 >>)

u16_to_be_bytes(v) == ArrayOf(<< v \div 256, v % 256 >>)

u16_from_le_bytes(arr) == (arr[1] * 256) + arr[0]

u16_from_be_bytes(arr) == (arr[0] * 256) + arr[1]

\* `b as i8` for a u8 b
u8_as_i8(b) == IF b >= 128 THEN b - 256 ELSE b

\* `v as u8` for an i8 v
i8_as_u8(v) == IF v < 0 THEN v + 256 ELSE v

\* <f32 as DecodeFromFile>::decode(e, b), b a 4-byte slice
f32_decode(e, b) ==
    IF e = "LittleEndian" THEN f32_from_le_bytes(b) ELSE f32_from_be_bytes(b)

\* the bytes <f32 as EncodeToFile>::encode(self, e, out) copies into out
f32_encode(self, e) ==
    IF e = "LittleEndian" THEN f32_to_le_bytes(self) ELSE f32_to_be_bytes(self)

\* <i16 as DecodeFromFile>::decode(e, b), b a 2-byte slice
i16_decode(e, b) ==
    IF e = "LittleEndian" THEN i16_from_le_bytes(b) ELSE i16_from_be_bytes(b)

i16_encode_always_le(self, e) == i16_to_le_bytes(self)

\* the bytes <i16 as EncodeToFile>::encode(self, e, out) copies into out
i16_encode(self, e) ==
    IF e = "LittleEndian" THEN i16_to_le_bytes(self) ELSE i16_to_be_bytes(self)

u16_decode(e, b) ==
    IF e = "LittleEndian" THEN u16_from_le_bytes(b) ELSE u16_from_be_bytes(b)

u16_encode(self, e) ==
    IF e = "LittleEndian" THEN u16_to_le_bytes(self) ELSE u16_to_be_bytes(self)

\* <i8 as DecodeFromFile>::decode(_e, b) = b[0] as i8
i8_decode(e, b) == u8_as_i8(b[0])

\* <i8 as EncodeToFile>::encode: out[0] = self as u8
i8_encode(self, e) == ArrayOf(<< i8_as_u8(self) >>)

\* a ++ b for two arrays
Concat(a, b) ==
    [i \in 0..(ALen(a) + ALen(b) - 1) |-> IF i < ALen(a) THEN a[i] ELSE b[i - ALen(a)]]

Int16Complex_decode_imag_first(e, b) ==
    LET real_arr == Slice(b, 2, 4)
        imag_arr == Slice(b, 0, 2)
    IN  [ real |-> IF e = "LittleEndian" THEN i16_from_le_bytes(real_arr)
                   ELSE i16_from_be_bytes(real_arr),
          imag |-> IF e = "LittleEndian" THEN i16_from_le_bytes(imag_arr)
                   ELSE i16_from_be_bytes(imag_arr) ]

\* Int16Complex::decode(e, b), b a 4-byte slice
Int16Complex_decode(e, b) ==
    LET real_arr == Slice(b, 0, 2)
        imag_arr == Slice(b, 2, 4)
    IN  [ real |-> IF e = "LittleEndian" THEN i16_from_le_bytes(real_arr)
                   ELSE i16_from_be_bytes(real_arr),
          imag |-> IF e = "LittleEndian" THEN i16_from_le_bytes(imag_arr)
                   ELSE i16_from_be_bytes(imag_arr) ]

\* the bytes Int16Complex::encode(self, e, out) copies into out[0..2], out[2..4]
Int16Complex_encode(self, e) ==
    LET real_bytes == IF e = "LittleEndian" THEN i16_to_le_bytes(self.real)
                      ELSE i16_to_be_bytes(self.real)
        imag_bytes == IF e = "LittleEndian" THEN i16_to_le_bytes(self.imag)
                      ELSE i16_to_be_bytes(self.imag)
    IN  Concat(real_bytes, imag_bytes)

\* Float32Complex::decode(e, b), b an 8-byte slice
Float32Complex_decode(e, b) ==
    LET real_arr == Slice(b, 0, 4)
        imag_arr == Slice(b, 4, 8)
    IN  [ real |-> IF e = "LittleEndian" THEN f32_from_le_bytes(real_arr)
                   ELSE f32_from_be_bytes(real_arr),
          imag |-> IF e = "LittleEndian" THEN f32_from_le_bytes(imag_arr)
                   ELSE f32_from_be_bytes(imag_arr) ]

\* the bytes Float32Complex::encode(self, e, out) copies into out[0..4], out[4..8]
Float32Complex_encode(self, e) ==
    LET real_bytes == IF e = "LittleEndian" THEN f32_to_le_bytes(self.real)
                      ELSE f32_to_be_bytes(self.real)
        imag_bytes == IF e = "LittleEndian" THEN f32_to_le_bytes(self.imag)
                      ELSE f32_to_be_bytes(self.imag)
    IN  Concat(real_bytes, imag_bytes)

\* a | b on u8
RECURSIVE u8_bitor(_, _)
u8_bitor(a, b) ==
    IF a = 0 THEN b
    ELSE IF b = 0 THEN a
    ELSE (IF a % 2 = 1 \/ b % 2 = 1 THEN 1 ELSE 0) + (2 * u8_bitor(a \div 2, b \div 2))

\* a << 4 on u8: the bits shifted out are lost
u8_shl4(a) == (a * 16) % 256

\* Packed4Bit::new(first, second): the assertions panic above 15
Packed4Bit_new(first, second) ==
    IF first > 15 \/ second > 15 THEN Panic
    ELSE Ok([ values |-> ArrayOf(<< first, second >>) ])

\* Packed4Bit::first / Packed4Bit::second
Packed4Bit_first(p) == p.values[0]

Packed4Bit_second(p) == p.values[1]

Packed4Bit_decode_high_first(e, b) ==
    [ values |-> ArrayOf(<< (b[0] \div 16) % 16, b[0] % 16 >>) ]

\* Packed4Bit::decode(_e, b): values = [byte & 0x0F, (byte >> 4) & 0x0F]
Packed4Bit_decode(e, b) ==
    [ values |-> ArrayOf(<< b[0] % 16, (b[0] \div 16) % 16 >>) ]

\* Packed4Bit::encode: out[0] = values[0] | (values[1] << 4)
Packed4Bit_encode(self, e) ==
    ArrayOf(<< u8_bitor(self.values[0], u8_shl4(self.values[1])) >>)

\* bytes[index], which panics when index is not below bytes.len()
InBounds(bytes, index) == 0 <= index /\ index < ALen(bytes)

\* &bytes[start..end], which panics unless start <= end <= bytes.len()
SliceInBounds(bytes, start, end) ==
    /\ ~usize_lt(end, start)
    /\ ~usize_lt(ALen(bytes), end)

\* fn decode_f32(bytes, offset, file_endian): reads bytes[offset .. offset+3]
decode_f32_at(bytes, offset, file_endian) ==
    IF ~(InBounds(bytes, offset) /\ InBounds(bytes, offset + 3)) THEN Panic
    ELSE LET arr == Slice(bytes, offset, offset + 4)
         IN  Ok(IF file_endian = "LittleEndian" THEN f32_from_le_bytes(arr)
                ELSE f32_from_be_bytes(arr))

\* fn decode_i16(bytes, offset, file_endian): reads bytes[offset], bytes[offset+1]
decode_i16_at(bytes, offset, file_endian) ==
    IF ~(InBounds(bytes, offset) /\ InBounds(bytes, offset + 1)) THEN Panic
    ELSE LET arr == Slice(bytes, offset, offset + 2)
         IN  Ok(IF file_endian = "LittleEndian" THEN i16_from_le_bytes(arr)
                ELSE i16_from_be_bytes(arr))

\* fn decode_u16(bytes, offset, file_endian)
decode_u16_at(bytes, offset, file_endian) ==
    IF ~(InBounds(bytes, offset) /\ InBounds(bytes, offset + 1)) THEN Panic
    ELSE LET arr == Slice(bytes, offset, offset + 2)
         IN  Ok(IF file_endian = "LittleEndian" THEN u16_from_le_bytes(arr)
                ELSE u16_from_be_bytes(arr))

---------------------------------------------------------------------------
(* DataBlock and DataBlockMut (lib.rs): a block b is the record of the    *)
(* struct's fields bytes, mode, file_endian, voxel_count                   *)

\* DataBlock::new / DataBlockMut::new: the fields are stored as given
DataBlockNew(bytes, mode, file_endian, voxel_count) ==
    [ bytes |-> bytes, mode |-> mode, file_endian |-> file_endian,
      voxel_count |-> voxel_count ]

\* the common shape of get_f32, get_i16, get_u16: offset = index * size, then
\* the check offset + size > bytes.len(), then the helper that reads the bytes
get_f32(b, index) ==
    IF b.mode # "Float32" THEN Err("InvalidMode")
    ELSE LET offset == usize_mul(index, 4)
             end    == usize_add(offset.val, 4)
         IN  IF overflow_checks /\ (offset.ovf \/ end.ovf) THEN Panic
             ELSE IF usize_lt(ALen(b.bytes), end.val) THEN Err("InvalidDimensions")
             ELSE decode_f32_at(b.bytes, offset.val, b.file_endian)

get_i16(b, index) ==
    IF b.mode # "Int16" THEN Err("InvalidMode")
    ELSE LET offset == usize_mul(index, 2)
             end    == usize_add(offset.val, 2)
         IN  IF overflow_checks /\ (offset.ovf \/ end.ovf) THEN Panic
             ELSE IF usize_lt(ALen(b.bytes), end.val) THEN Err("InvalidDimensions")
             ELSE decode_i16_at(b.bytes, offset.val, b.file_endian)

get_u16(b, index) ==
    IF b.mode # "Uint16" THEN Err("InvalidMode")
    ELSE LET offset == usize_mul(index, 2)
             end    == usize_add(offset.val, 2)
         IN  IF overflow_checks /\ (offset.ovf \/ end.ovf) THEN Panic
             ELSE IF usize_lt(ALen(b.bytes), end.val) THEN Err("InvalidDimensions")
             ELSE decode_u16_at(b.bytes, offset.val, b.file_endian)

get_i8(b, index) ==
    IF b.mode # "Int8" THEN Err("InvalidMode")
    ELSE IF ~usize_lt(index, ALen(b.bytes)) THEN Err("InvalidDimensions")
    ELSE Ok(u8_as_i8(b.bytes[index]))

get_int16_complex(b, index) ==
    IF b.mode # "Int16Complex" THEN Err("InvalidMode")
    ELSE LET offset == usize_mul(index, 4)
             end    == usize_add(offset.val, 4)
         IN  IF overflow_checks /\ (offset.ovf \/ end.ovf) THEN Panic
             ELSE IF usize_lt(ALen(b.bytes), end.val) THEN Err("InvalidDimensions")
             ELSE IF ~SliceInBounds(b.bytes, offset.val, end.val) THEN Panic
             ELSE Ok(Int16Complex_decode(b.file_endian,
                                         Slice(b.bytes, offset.val, end.val)))

get_float32_complex(b, index) ==
    IF b.mode # "Float32Complex" THEN Err("InvalidMode")
    ELSE LET offset == usize_mul(index, 8)
             end    == usize_add(offset.val, 8)
         IN  IF overflow_checks /\ (offset.ovf \/ end.ovf) THEN Panic
             ELSE IF usize_lt(ALen(b.bytes), end.val) THEN Err("InvalidDimensions")
             ELSE IF ~SliceInBounds(b.bytes, offset.val, end.val) THEN Panic
             ELSE Ok(Float32Complex_decode(b.file_endian,
                                           Slice(b.bytes, offset.val, end.val)))

\* the bound checked is voxel_count, the byte read is bytes[index / 2]
get_packed4bit_value(b, index) ==
    IF b.mode # "Packed4Bit" THEN Err("InvalidMode")
    ELSE IF ~usize_lt(index, b.voxel_count) THEN Err("InvalidDimensions")
    ELSE LET byte_idx == index \div 2
             nibble   == index % 2
         IN  IF ~InBounds(b.bytes, byte_idx) THEN Panic
             ELSE LET packed == Packed4Bit_decode(b.file_endian,
                                                  Slice(b.bytes, byte_idx, byte_idx + 1))
                  IN  Ok(IF nibble = 0 THEN packed.values[0] ELSE packed.values[1])

\* the read_T_into give the Result and the out slice afterwards; out is a
\* sequence, element k of the model being out[k - 1] of the source
read_f32_into(b, o) ==
    IF b.mode # "Float32" THEN [res |-> Err("InvalidMode"), out |-> o]
    ELSE LET n == Len(o)
         IN  IF n * 4 > ALen(b.bytes)
             THEN [res |-> Err("InvalidDimensions"), out |-> o]
             ELSE [ res |-> Ok(<<>>),
                    out |-> [k \in 1..n |->
                               decode_f32_at(b.bytes, (k - 1) * 4, b.file_endian).val] ]

\* the result Vec is n zeros handed to read_f32_into
to_vec_f32(b) ==
    IF b.mode # "Float32" THEN Err("InvalidMode")
    ELSE IF ALen(b.bytes) % 4 # 0 THEN Err("InvalidDimensions")
    ELSE LET n == ALen(b.bytes) \div 4
             filled == read_f32_into(b, [k \in 1..n |-> 0])
         IN  IF filled.res.tag = "Ok" THEN Ok(filled.out) ELSE filled.res

\* read_i16_into that decodes what fits before it reports the size error
read_i16_into_fills_before_check(b, o) ==
    IF b.mode # "Int16" THEN [res |-> Err("InvalidMode"), out |-> o]
    ELSE LET n    == Len(o)
             fits == IF n * 2 > ALen(b.bytes) THEN ALen(b.bytes) \div 2 ELSE n
         IN  [ res |-> IF n * 2 > ALen(b.bytes) THEN Err("InvalidDimensions")
                       ELSE Ok(<<>>),
               out |-> [k \in 1..n |->
                          IF k <= fits
                          THEN decode_i16_at(b.bytes, (k - 1) * 2, b.file_endian).val
                          ELSE o[k]] ]

read_i16_into(b, o) ==
    IF b.mode # "Int16" THEN [res |-> Err("InvalidMode"), out |-> o]
    ELSE LET n == Len(o)
         IN  IF n * 2 > ALen(b.bytes)
             THEN [res |-> Err("InvalidDimensions"), out |-> o]
             ELSE [ res |-> Ok(<<>>),
                    out |-> [k \in 1..n |->
                               decode_i16_at(b.bytes, (k - 1) * 2, b.file_endian).val] ]

\* the result Vec is n zeros handed to read_i16_into
to_vec_i16(b) ==
    IF b.mode # "Int16" THEN Err("InvalidMode")
    ELSE IF ALen(b.bytes) % 2 # 0 THEN Err("InvalidDimensions")
    ELSE LET n == ALen(b.bytes) \div 2
             filled == read_i16_into(b, [k \in 1..n |-> 0])
         IN  IF filled.res.tag = "Ok" THEN Ok(filled.out) ELSE filled.res

read_u16_into(b, o) ==
    IF b.mode # "Uint16" THEN [res |-> Err("InvalidMode"), out |-> o]
    ELSE LET n == Len(o)
         IN  IF n * 2 > ALen(b.bytes)
             THEN [res |-> Err("InvalidDimensions"), out |-> o]
             ELSE [ res |-> Ok(<<>>),
                    out |-> [k \in 1..n |->
                               decode_u16_at(b.bytes, (k - 1) * 2, b.file_endian).val] ]

\* the result Vec is n zeros handed to read_u16_into
to_vec_u16(b) ==
    IF b.mode # "Uint16" THEN Err("InvalidMode")
    ELSE IF ALen(b.bytes) % 2 # 0 THEN Err("InvalidDimensions")
    ELSE LET n == ALen(b.bytes) \div 2
             filled == read_u16_into(b, [k \in 1..n |-> 0])
         IN  IF filled.res.tag = "Ok" THEN Ok(filled.out) ELSE filled.res

as_i8(b) ==
    IF b.mode # "Int8" THEN Err("InvalidMode")
    ELSE Ok([k \in 1..ALen(b.bytes) |->
                i8_decode(b.file_endian, Slice(b.bytes, k - 1, k))])

\* for (i, &byte) in self.bytes.iter().enumerate().take(out.len())
read_i8_into(b, o) ==
    IF b.mode # "Int8" THEN [res |-> Err("InvalidMode"), out |-> o]
    ELSE IF Len(o) > ALen(b.bytes)
         THEN [res |-> Err("InvalidDimensions"), out |-> o]
    ELSE [ res |-> Ok(<<>>),
           out |-> [k \in 1..Len(o) |-> u8_as_i8(b.bytes[k - 1])] ]

\* for (i, chunk) in self.bytes.chunks_exact(4).take(n).enumerate()
read_int16_complex_into(b, o) ==
    IF b.mode # "Int16Complex" THEN [res |-> Err("InvalidMode"), out |-> o]
    ELSE LET n == Len(o)
         IN  IF n * 4 > ALen(b.bytes)
             THEN [res |-> Err("InvalidDimensions"), out |-> o]
             ELSE [ res |-> Ok(<<>>),
                    out |-> [k \in 1..n |->
                               Int16Complex_decode(b.file_endian,
                                   Slice(b.bytes, (k - 1) * 4, k * 4))] ]

read_float32_complex_into(b, o) ==
    IF b.mode # "Float32Complex" THEN [res |-> Err("InvalidMode"), out |-> o]
    ELSE LET n == Len(o)
         IN  IF n * 8 > ALen(b.bytes)
             THEN [res |-> Err("InvalidDimensions"), out |-> o]
             ELSE [ res |-> Ok(<<>>),
                    out |-> [k \in 1..n |->
                               Float32Complex_decode(b.file_endian,
                                   Slice(b.bytes, (k - 1) * 8, k * 8))] ]

read_packed4bit_into(b, o) ==
    IF b.mode # "Packed4Bit" THEN [res |-> Err("InvalidMode"), out |-> o]
    ELSE IF Len(o) > ALen(b.bytes)
         THEN [res |-> Err("InvalidDimensions"), out |-> o]
    ELSE [ res |-> Ok(<<>>),
           out |-> [k \in 1..Len(o) |->
                      Packed4Bit_decode(b.file_endian, Slice(b.bytes, k - 1, k))] ]

\* self.bytes.chunks_exact(4), each chunk decoded
as_int16_complex(b) ==
    IF b.mode # "Int16Complex" THEN Err("InvalidMode")
    ELSE IF ALen(b.bytes) % 4 # 0 THEN Err("InvalidDimensions")
    ELSE Ok([k \in 1..(ALen(b.bytes) \div 4) |->
                Int16Complex_decode(b.file_endian, Slice(b.bytes, (k - 1) * 4, k * 4))])

as_float32_complex(b) ==
    IF b.mode # "Float32Complex" THEN Err("InvalidMode")
    ELSE IF ALen(b.bytes) % 8 # 0 THEN Err("InvalidDimensions")
    ELSE Ok([k \in 1..(ALen(b.bytes) \div 8) |->
                Float32Complex_decode(b.file_endian, Slice(b.bytes, (k - 1) * 8, k * 8))])

as_packed4bit(b) ==
    IF b.mode # "Packed4Bit" THEN Err("InvalidMode")
    ELSE Ok([k \in 1..ALen(b.bytes) |->
                Packed4Bit_decode(b.file_endian, Slice(b.bytes, k - 1, k))])

\* the bound checked is bytes.len(): one Packed4Bit per byte
get_packed4bit(b, index) ==
    IF b.mode # "Packed4Bit" THEN Err("InvalidMode")
    ELSE IF ~usize_lt(index, ALen(b.bytes)) THEN Err("InvalidDimensions")
    ELSE Ok(Packed4Bit_decode(b.file_endian, Slice(b.bytes, index, index + 1)))

\* len_voxels()
len_voxels(b) == b.voxel_count

\* Creating an iterator gives Err(InvalidMode) or Ok of the iterator; the
\* iterator is lazy, so it is carried by the operation that made it and
\* the *_items below give what draining it yields (a panic of a decode
\* helper ends the drain with a panic).
iter_f32(b) == IF b.mode # "Float32" THEN Err("InvalidMode") ELSE Ok("iter_f32")

\* (0..len).map(|i| decode_f32(bytes, i * 4, file_endian)), len = len_voxels()
iter_f32_items(b) ==
    LET len == len_voxels(b)
        item(i) == decode_f32_at(b.bytes, i * 4, b.file_endian)
    IN  IF \E i \in 0..(len - 1) : item(i).tag = "Panic" THEN Panic
        ELSE Ok([k \in 1..len |-> item(k - 1).val])

iter_i16(b) == IF b.mode # "Int16" THEN Err("InvalidMode") ELSE Ok("iter_i16")

iter_i16_items(b) ==
    LET len == len_voxels(b)
        item(i) == decode_i16_at(b.bytes, i * 2, b.file_endian)
    IN  IF \E i \in 0..(len - 1) : item(i).tag = "Panic" THEN Panic
        ELSE Ok([k \in 1..len |-> item(k - 1).val])

iter_u16(b) == IF b.mode # "Uint16" THEN Err("InvalidMode") ELSE Ok("iter_u16")

iter_u16_items(b) ==
    LET len == len_voxels(b)
        item(i) == decode_u16_at(b.bytes, i * 2, b.file_endian)
    IN  IF \E i \in 0..(len - 1) : item(i).tag = "Panic" THEN Panic
        ELSE Ok([k \in 1..len |-> item(k - 1).val])

iter_i8(b) == IF b.mode # "Int8" THEN Err("InvalidMode") ELSE Ok("iter_i8")

\* self.bytes.iter().map(|&b| b as i8)
iter_i8_items(b) == Ok([k \in 1..ALen(b.bytes) |-> u8_as_i8(b.bytes[k - 1])])

iter_int16_complex(b) ==
    IF b.mode # "Int16Complex" THEN Err("InvalidMode") ELSE Ok("iter_int16_complex")

\* self.bytes.chunks_exact(4).map(decode)
iter_int16_complex_items(b) ==
    Ok([k \in 1..(ALen(b.bytes) \div 4) |->
           Int16Complex_decode(b.file_endian, Slice(b.bytes, (k - 1) * 4, k * 4))])

iter_float32_complex(b) ==
    IF b.mode # "Float32Complex" THEN Err("InvalidMode")
    ELSE Ok("iter_float32_complex")

iter_float32_complex_items(b) ==
    Ok([k \in 1..(ALen(b.bytes) \div 8) |->
           Float32Complex_decode(b.file_endian, Slice(b.bytes, (k - 1) * 8, k * 8))])

iter_packed4bit(b) ==
    IF b.mode # "Packed4Bit" THEN Err("InvalidMode") ELSE Ok("iter_packed4bit")

iter_packed4bit_items(b) ==
    Ok([k \in 1..ALen(b.bytes) |->
           Packed4Bit_decode(b.file_endian, Slice(b.bytes, k - 1, k))])

iter_packed4bit_values(b) ==
    IF b.mode # "Packed4Bit" THEN Err("InvalidMode")
    ELSE Ok("iter_packed4bit_values")

iter_packed4bit_values_ignores_count(b) ==
    LET nibbles == 2 * ALen(b.bytes)
    IN  Ok([k \in 1..nibbles |->
               LET packed == Packed4Bit_decode(b.file_endian,
                                 Slice(b.bytes, (k - 1) \div 2, ((k - 1) \div 2) + 1))
               IN  IF (k - 1) % 2 = 0 THEN Packed4Bit_first(packed)
                   ELSE Packed4Bit_second(packed)])

\* self.bytes.iter().flat_map(|&b| [first, second]).take(voxel_count)
iter_packed4bit_values_items(b) ==
    LET nibbles == 2 * ALen(b.bytes)
        taken   == IF b.voxel_count < nibbles THEN b.voxel_count ELSE nibbles
    IN  Ok([k \in 1..taken |->
               LET packed == Packed4Bit_decode(b.file_endian,
                                 Slice(b.bytes, (k - 1) \div 2, ((k - 1) \div 2) + 1))
               IN  IF (k - 1) % 2 = 0 THEN Packed4Bit_first(packed)
                   ELSE Packed4Bit_second(packed)])

\* for (i, &value) in values.iter().enumerate()
\*     { value.encode(e, &mut bytes[i * size .. i * size + size]) }
\* with chunks[i + 1] the bytes that values[i] encodes to
RECURSIVE EncodeEach(_, _, _, _)
EncodeEach(bytes, chunks, size, i) ==
    IF i >= Len(chunks) THEN bytes
    ELSE EncodeEach(CopyFromSlice(bytes, i * size, chunks[i + 1]), chunks, size,
                    i + 1)

\* the setters give the Result and the bytes of the block afterwards
\* set_f32 that refuses only too many values and fills a prefix otherwise
set_f32_allows_partial(b, values) ==
    IF b.mode # "Float32" THEN [res |-> Err("InvalidMode"), bytes |-> b.bytes]
    ELSE IF Len(values) * 4 > ALen(b.bytes)
         THEN [res |-> Err("InvalidDimensions"), bytes |-> b.bytes]
    ELSE [ res   |-> Ok(<<>>),
           bytes |-> EncodeEach(b.bytes,
                        [k \in 1..Len(values) |-> f32_encode(values[k], b.file_endian)],
                        4, 0) ]

set_f32(b, values) ==
    IF b.mode # "Float32" THEN [res |-> Err("InvalidMode"), bytes |-> b.bytes]
    ELSE IF Len(values) * 4 # ALen(b.bytes)
         THEN [res |-> Err("InvalidDimensions"), bytes |-> b.bytes]
    ELSE [ res   |-> Ok(<<>>),
           bytes |-> EncodeEach(b.bytes,
                        [k \in 1..Len(values) |-> f32_encode(values[k], b.file_endian)],
                        4, 0) ]

\* set_i16 with the size check ahead of the mode check
set_i16_size_before_mode(b, values) ==
    IF Len(values) * 2 # ALen(b.bytes)
    THEN [res |-> Err("InvalidDimensions"), bytes |-> b.bytes]
    ELSE IF b.mode # "Int16" THEN [res |-> Err("InvalidMode"), bytes |-> b.bytes]
    ELSE [ res   |-> Ok(<<>>),
           bytes |-> EncodeEach(b.bytes,
                        [k \in 1..Len(values) |-> i16_encode(values[k], b.file_endian)],
                        2, 0) ]

set_i16(b, values) ==
    IF b.mode # "Int16" THEN [res |-> Err("InvalidMode"), bytes |-> b.bytes]
    ELSE IF Len(values) * 2 # ALen(b.bytes)
         THEN [res |-> Err("InvalidDimensions"), bytes |-> b.bytes]
    ELSE [ res   |-> Ok(<<>>),
           bytes |-> EncodeEach(b.bytes,
                        [k \in 1..Len(values) |-> i16_encode(values[k], b.file_endian)],
                        2, 0) ]

set_u16(b, values) ==
    IF b.mode # "Uint16" THEN [res |-> Err("InvalidMode"), bytes |-> b.bytes]
    ELSE IF Len(values) * 2 # ALen(b.bytes)
         THEN [res |-> Err("InvalidDimensions"), bytes |-> b.bytes]
    ELSE [ res   |-> Ok(<<>>),
           bytes |-> EncodeEach(b.bytes,
                        [k \in 1..Len(values) |-> u16_encode(values[k], b.file_endian)],
                        2, 0) ]

set_i8(b, values) ==
    IF b.mode # "Int8" THEN [res |-> Err("InvalidMode"), bytes |-> b.bytes]
    ELSE IF Len(values) # ALen(b.bytes)
         THEN [res |-> Err("InvalidDimensions"), bytes |-> b.bytes]
    ELSE [ res   |-> Ok(<<>>),
           bytes |-> EncodeEach(b.bytes,
                        [k \in 1..Len(values) |-> i8_encode(values[k], b.file_endian)],
                        1, 0) ]

set_int16_complex(b, values) ==
    IF b.mode # "Int16Complex" THEN [res |-> Err("InvalidMode"), bytes |-> b.bytes]
    ELSE IF Len(values) * 4 # ALen(b.bytes)
         THEN [res |-> Err("InvalidDimensions"), bytes |-> b.bytes]
    ELSE [ res   |-> Ok(<<>>),
           bytes |-> EncodeEach(b.bytes,
                        [k \in 1..Len(values) |->
                            Int16Complex_encode(values[k], b.file_endian)],
                        4, 0) ]

set_float32_complex(b, values) ==
    IF b.mode # "Float32Complex" THEN [res |-> Err("InvalidMode"), bytes |-> b.bytes]
    ELSE IF Len(values) * 8 # ALen(b.bytes)
         THEN [res |-> Err("InvalidDimensions"), bytes |-> b.bytes]
    ELSE [ res   |-> Ok(<<>>),
           bytes |-> EncodeEach(b.bytes,
                        [k \in 1..Len(values) |->
                            Float32Complex_encode(values[k], b.file_endian)],
                        8, 0) ]

set_packed4bit(b, values) ==
    IF b.mode # "Packed4Bit" THEN [res |-> Err("InvalidMode"), bytes |-> b.bytes]
    ELSE IF Len(values) # ALen(b.bytes)
         THEN [res |-> Err("InvalidDimensions"), bytes |-> b.bytes]
    ELSE [ res   |-> Ok(<<>>),
           bytes |-> EncodeEach(b.bytes,
                        [k \in 1..Len(values) |->
                            Packed4Bit_encode(values[k], b.file_endian)],
                        1, 0) ]

---------------------------------------------------------------------------
(* MrcView and MrcViewMut (view.rs): a view v is the record of the header *)
(* and of the two slices ext_header and data, each slice given by its     *)
(* offset and length in the caller's buffer                               *)

\* MrcView::new(header, data); split_at(ext_header_size) panics when
\* ext_header_size is above data.len()
\* MrcView::new with the length check ahead of the validity check
MrcView_new_size_first(header, data) ==
    LET ext_header_size    == as_usize(header.nsymbt)
        expected_data_size == data_size(header)
        total_expected     == usize_add(ext_header_size, expected_data_size.val)
    IN  IF overflow_checks /\ (expected_data_size.ovf \/ total_expected.ovf)
        THEN Panic
        ELSE IF usize_lt(ALen(data), total_expected.val)
        THEN Err("InvalidDimensions")
        ELSE IF ~validate(header) THEN Err("InvalidHeader")
        ELSE IF usize_lt(ALen(data), ext_header_size) THEN Panic
        ELSE Ok([ header     |-> header,
                  ext_header |-> [off |-> 0, len |-> ext_header_size],
                  data       |-> [off |-> ext_header_size,
                                  len |-> ALen(data) - ext_header_size] ])

MrcView_new(header, data) ==
    IF ~validate(header) THEN Err("InvalidHeader")
    ELSE LET ext_header_size    == as_usize(header.nsymbt)
             expected_data_size == data_size(header)
             total_expected     == usize_add(ext_header_size, expected_data_size.val)
         IN  IF overflow_checks /\ (expected_data_size.ovf \/ total_expected.ovf)
             THEN Panic
             ELSE IF usize_lt(ALen(data), total_expected.val)
             THEN Err("InvalidDimensions")
             ELSE IF usize_lt(ALen(data), ext_header_size) THEN Panic
             ELSE Ok([ header     |-> header,
                       ext_header |-> [off |-> 0, len |-> ext_header_size],
                       data       |-> [off |-> ext_header_size,
                                       len |-> ALen(data) - ext_header_size] ])

\* MrcViewMut::new(header, data)
MrcViewMut_new(header, data) ==
    IF ~validate(header) THEN Err("InvalidHeader")
    ELSE LET ext_header_size    == as_usize(header.nsymbt)
             expected_data_size == data_size(header)
             total_expected     == usize_add(ext_header_size, expected_data_size.val)
         IN  IF overflow_checks /\ (expected_data_size.ovf \/ total_expected.ovf)
             THEN Panic
             ELSE IF usize_lt(ALen(data), total_expected.val)
             THEN Err("InvalidDimensions")
             ELSE IF usize_lt(ALen(data), ext_header_size) THEN Panic
             ELSE Ok([ header     |-> header,
                       ext_header |-> [off |-> 0, len |-> ext_header_size],
                       data       |-> [off |-> ext_header_size,
                                       len |-> ALen(data) - ext_header_size] ])

\* self.data of a view over the buffer buf, what MrcView::data() returns
ViewData(v, buf) == Slice(buf, v.data.off, v.data.off + v.data.len)

\* write_ext_header that refuses only data longer than the extension
write_ext_header_accepts_shorter(v, buf, d) ==
    IF ALen(d) > v.ext_header.len
    THEN [res |-> Err("InvalidDimensions"), buf |-> buf]
    ELSE [res |-> Ok(<<>>), buf |-> CopyFromSlice(buf, v.ext_header.off, d)]

\* MrcViewMut::write_ext_header(data)
write_ext_header(v, buf, d) ==
    IF ALen(d) # v.ext_header.len
    THEN [res |-> Err("InvalidDimensions"), buf |-> buf]
    ELSE [res |-> Ok(<<>>), buf |-> CopyFromSlice(buf, v.ext_header.off, d)]

\* MrcView::save(_path): no file is touched
save(v, path) == Err("Io")

\* ext_header with the bytes in reverse order
ext_header_reversed(v, buf) ==
    [i \in 0..(v.ext_header.len - 1) |->
        buf[v.ext_header.off + ((v.ext_header.len - 1) - i)]]

\* MrcView::ext_header() / MrcViewMut::ext_header(): self.ext_header
ext_header(v, buf) ==
    Slice(buf, v.ext_header.off, v.ext_header.off + v.ext_header.len)

\* data.chunks_exact(size) of data[..expected_size], each chunk decoded
data_as_f32(v, buf) ==
    IF v.header.mode # 2 THEN Err("InvalidMode")
    ELSE LET file_endian   == detect_endian(v.header)
             expected_size == data_size(v.header)
             data          == ViewData(v, buf)
         IN  IF overflow_checks /\ expected_size.ovf THEN Panic
             ELSE IF usize_lt(ALen(data), expected_size.val)
             THEN Err("InvalidDimensions")
             ELSE Ok([k \in 1..(expected_size.val \div 4) |->
                        f32_decode(file_endian, Slice(data, (k - 1) * 4, k * 4))])

data_as_i16(v, buf) ==
    IF v.header.mode # 1 THEN Err("InvalidMode")
    ELSE LET file_endian   == detect_endian(v.header)
             expected_size == data_size(v.header)
             data          == ViewData(v, buf)
         IN  IF overflow_checks /\ expected_size.ovf THEN Panic
             ELSE IF usize_lt(ALen(data), expected_size.val)
             THEN Err("InvalidDimensions")
             ELSE Ok([k \in 1..(expected_size.val \div 2) |->
                        i16_decode(file_endian, Slice(data, (k - 1) * 2, k * 2))])

data_as_u16(v, buf) ==
    IF v.header.mode # 6 THEN Err("InvalidMode")
    ELSE LET file_endian   == detect_endian(v.header)
             expected_size == data_size(v.header)
             data          == ViewData(v, buf)
         IN  IF overflow_checks /\ expected_size.ovf THEN Panic
             ELSE IF usize_lt(ALen(data), expected_size.val)
             THEN Err("InvalidDimensions")
             ELSE Ok([k \in 1..(expected_size.val \div 2) |->
                        u16_decode(file_endian, Slice(data, (k - 1) * 2, k * 2))])

data_as_i8(v, buf) ==
    IF v.header.mode # 0 THEN Err("InvalidMode")
    ELSE LET file_endian   == detect_endian(v.header)
             expected_size == data_size(v.header)
             data          == ViewData(v, buf)
         IN  IF overflow_checks /\ expected_size.ovf THEN Panic
             ELSE IF usize_lt(ALen(data), expected_size.val)
             THEN Err("InvalidDimensions")
             ELSE Ok([k \in 1..expected_size.val |->
                        i8_decode(file_endian, Slice(data, k - 1, k))])

data_as_int16_complex(v, buf) ==
    IF v.header.mode # 3 THEN Err("InvalidMode")
    ELSE LET file_endian   == detect_endian(v.header)
             expected_size == data_size(v.header)
             data          == ViewData(v, buf)
         IN  IF overflow_checks /\ expected_size.ovf THEN Panic
             ELSE IF usize_lt(ALen(data), expected_size.val)
             THEN Err("InvalidDimensions")
             ELSE Ok([k \in 1..(expected_size.val \div 4) |->
                        Int16Complex_decode(file_endian, Slice(data, (k - 1) * 4, k * 4))])

data_as_float32_complex(v, buf) ==
    IF v.header.mode # 4 THEN Err("InvalidMode")
    ELSE LET file_endian   == detect_endian(v.header)
             expected_size == data_size(v.header)
             data          == ViewData(v, buf)
         IN  IF overflow_checks /\ expected_size.ovf THEN Panic
             ELSE IF usize_lt(ALen(data), expected_size.val)
             THEN Err("InvalidDimensions")
             ELSE Ok([k \in 1..(expected_size.val \div 8) |->
                        Float32Complex_decode(file_endian, Slice(data, (k - 1) * 8, k * 8))])

data_as_packed4bit(v, buf) ==
    IF v.header.mode # 101 THEN Err("InvalidMode")
    ELSE LET file_endian   == detect_endian(v.header)
             expected_size == data_size(v.header)
             data          == ViewData(v, buf)
         IN  IF overflow_checks /\ expected_size.ovf THEN Panic
             ELSE IF usize_lt(ALen(data), expected_size.val)
             THEN Err("InvalidDimensions")
             ELSE Ok([k \in 1..expected_size.val |->
                        Packed4Bit_decode(file_endian, Slice(data, k - 1, k))])

\* the writers give the Result and the caller's buffer afterwards
write_f32(v, buf, values) ==
    IF v.header.mode # 2 THEN [res |-> Err("InvalidMode"), buf |-> buf]
    ELSE LET expected_size == data_size(v.header)
             file_endian   == detect_endian(v.header)
         IN  IF overflow_checks /\ expected_size.ovf THEN [res |-> Panic, buf |-> buf]
             ELSE IF v.data.len # expected_size.val \/ Len(values) * 4 # expected_size.val
             THEN [res |-> Err("InvalidDimensions"), buf |-> buf]
             ELSE [ res |-> Ok(<<>>),
                    buf |-> CopyFromSlice(buf, v.data.off,
                              EncodeEach(ViewData(v, buf),
                                [k \in 1..Len(values) |-> f32_encode(values[k], file_endian)],
                                4, 0)) ]

write_i16(v, buf, values) ==
    IF v.header.mode # 1 THEN [res |-> Err("InvalidMode"), buf |-> buf]
    ELSE LET expected_size == data_size(v.header)
             file_endian   == detect_endian(v.header)
         IN  IF overflow_checks /\ expected_size.ovf THEN [res |-> Panic, buf |-> buf]
             ELSE IF v.data.len # expected_size.val \/ Len(values) * 2 # expected_size.val
             THEN [res |-> Err("InvalidDimensions"), buf |-> buf]
             ELSE [ res |-> Ok(<<>>),
                    buf |-> CopyFromSlice(buf, v.data.off,
                              EncodeEach(ViewData(v, buf),
                                [k \in 1..Len(values) |-> i16_encode(values[k], file_endian)],
                                2, 0)) ]

write_u16(v, buf, values) ==
    IF v.header.mode # 6 THEN [res |-> Err("InvalidMode"), buf |-> buf]
    ELSE LET expected_size == data_size(v.header)
             file_endian   == detect_endian(v.header)
         IN  IF overflow_checks /\ expected_size.ovf THEN [res |-> Panic, buf |-> buf]
             ELSE IF v.data.len # expected_size.val \/ Len(values) * 2 # expected_size.val
             THEN [res |-> Err("InvalidDimensions"), buf |-> buf]
             ELSE [ res |-> Ok(<<>>),
                    buf |-> CopyFromSlice(buf, v.data.off,
                              EncodeEach(ViewData(v, buf),
                                [k \in 1..Len(values) |-> u16_encode(values[k], file_endian)],
                                2, 0)) ]

write_i8(v, buf, values) ==
    IF v.header.mode # 0 THEN [res |-> Err("InvalidMode"), buf |-> buf]
    ELSE LET expected_size == data_size(v.header)
             file_endian   == detect_endian(v.header)
         IN  IF overflow_checks /\ expected_size.ovf THEN [res |-> Panic, buf |-> buf]
             ELSE IF v.data.len # expected_size.val \/ Len(values) # expected_size.val
             THEN [res |-> Err("InvalidDimensions"), buf |-> buf]
             ELSE [ res |-> Ok(<<>>),
                    buf |-> CopyFromSlice(buf, v.data.off,
                              EncodeEach(ViewData(v, buf),
                                [k \in 1..Len(values) |-> i8_encode(values[k], file_endian)],
                                1, 0)) ]

write_int16_complex(v, buf, values) ==
    IF v.header.mode # 3 THEN [res |-> Err("InvalidMode"), buf |-> buf]
    ELSE LET expected_size == data_size(v.header)
             file_endian   == detect_endian(v.header)
         IN  IF overflow_checks /\ expected_size.ovf THEN [res |-> Panic, buf |-> buf]
             ELSE IF v.data.len # expected_size.val \/ Len(values) * 4 # expected_size.val
             THEN [res |-> Err("InvalidDimensions"), buf |-> buf]
             ELSE [ res |-> Ok(<<>>),
                    buf |-> CopyFromSlice(buf, v.data.off,
                              EncodeEach(ViewData(v, buf),
                                [k \in 1..Len(values) |-> Int16Complex_encode(values[k], file_endian)],
                                4, 0)) ]

write_float32_complex(v, buf, values) ==
    IF v.header.mode # 4 THEN [res |-> Err("InvalidMode"), buf |-> buf]
    ELSE LET expected_size == data_size(v.header)
             file_endian   == detect_endian(v.header)
         IN  IF overflow_checks /\ expected_size.ovf THEN [res |-> Panic, buf |-> buf]
             ELSE IF v.data.len # expected_size.val \/ Len(values) * 8 # expected_size.val
             THEN [res |-> Err("InvalidDimensions"), buf |-> buf]
             ELSE [ res |-> Ok(<<>>),
                    buf |-> CopyFromSlice(buf, v.data.off,
                              EncodeEach(ViewData(v, buf),
                                [k \in 1..Len(values) |-> Float32Complex_encode(values[k], file_endian)],
                                8, 0)) ]

write_packed4bit(v, buf, values) ==
    IF v.header.mode # 101 THEN [res |-> Err("InvalidMode"), buf |-> buf]
    ELSE LET expected_size == data_size(v.header)
             file_endian   == detect_endian(v.header)
         IN  IF overflow_checks /\ expected_size.ovf THEN [res |-> Panic, buf |-> buf]
             ELSE IF v.data.len # expected_size.val \/ Len(values) # expected_size.val
             THEN [res |-> Err("InvalidDimensions"), buf |-> buf]
             ELSE [ res |-> Ok(<<>>),
                    buf |-> CopyFromSlice(buf, v.data.off,
                              EncodeEach(ViewData(v, buf),
                                [k \in 1..Len(values) |-> Packed4Bit_encode(values[k], file_endian)],
                                1, 0)) ]

---------------------------------------------------------------------------
(* Sample values of the typed writers *)

\* 1.0, 0x01020304 and a negative NaN, as bit patterns
F32Samples == {1065353216, 16909060, -4194304}

\* 0x0102, 0xFFFE, 0x8000
I16Samples == {258, -2, -32768}

U16Samples == {258, 65534, 32768}

I8Samples == {1, -1, -128}

Int16ComplexSamples == { [real |-> 258, imag |-> -2], [real |-> -32768, imag |-> 1] }

Float32ComplexSamples ==
    { [real |-> 1065353216, imag |-> 16909060],
      [real |-> -4194304, imag |-> 1065353216] }

\* Packed4Bit::new(11, 3) and Packed4Bit::new(0, 15)
Packed4BitSamples == { Packed4Bit_new(11, 3).val, Packed4Bit_new(0, 15).val }

\* the slices of at most n elements of S
SlicesOf(S, n) == UNION { [1..k -> S] : k \in 0..n }

\* bytes that differ from their neighbours: 0xAB, 0xD0, 0xF5, 0x1A, ...
PatternBytes(n) == [i \in 0..(n - 1) |-> (171 + (37 * i)) % 256]

---------------------------------------------------------------------------
(* The view scenario: a view is built over a buffer, written through and  *)
(* read back                                                              *)

\* headers of nx x 1 x 1 samples with nsymbt extension bytes
ViewHeaderInputs ==
    { [Populated(nx, 1, 1, m, MAP_ID, <<1, 2, 3>>, 1)
          EXCEPT !.nsymbt = e, !.machst = to_machst(fe)] :
        nx \in 0..MaxVals, m \in {0, 1, 2, 3, 4, 5, 6, 101},
        e \in (-1)..MaxExt, fe \in FileEndian }

\* the longest buffer: one byte more than the largest f32 volume needs
MaxBuf == MaxExt + (4 * MaxVals) + 1

ViewBufferInputs == { PatternBytes(n) : n \in 0..MaxBuf }

InitView ==
    /\ CodecIdle
    /\ HeaderIdle
    /\ BlockIdle
    /\ SampleIdle
    /\ FileIdle
    /\ overflow_checks \in BOOLEAN
    /\ vin \in ViewHeaderInputs
    /\ vbuf \in ViewBufferInputs
    /\ view = "none"
    /\ vvals = "none"
    /\ vres = "none"
    /\ vpc = "input"

\* MrcView::new(vin, &vbuf), on the caller's buffer as given, or as a
\* MrcViewMut that has since been dropped left it (the view is reopened)
MrcViewNew ==
    /\ vpc \in {"input", "written"}
    /\ LET res == MrcView_new(vin, vbuf)
       IN  /\ vres' = [op |-> "MrcView::new", tag |-> res.tag, val |-> res.val]
           /\ view' = IF res.tag = "Ok" THEN res.val ELSE "none"
           /\ vpc' = CASE vpc = "input" /\ res.tag = "Ok"   -> "viewing"
                      [] vpc = "input" /\ res.tag # "Ok"   -> "failed"
                      [] vpc = "written" /\ res.tag = "Ok" -> "reopened"
                      [] OTHER                             -> "reopen_failed"
    /\ UNCHANGED <<vin, vbuf, vvals>>

\* MrcViewMut::new(vin, &mut vbuf)
MrcViewMutNew ==
    /\ vpc = "input"
    /\ LET res == MrcViewMut_new(vin, vbuf)
       IN  /\ vres' = [op |-> "MrcViewMut::new", tag |-> res.tag, val |-> res.val]
           /\ view' = IF res.tag = "Ok" THEN res.val ELSE "none"
           /\ vpc' = IF res.tag = "Ok" THEN "editing" ELSE "failed"
    /\ UNCHANGED <<vin, vbuf, vvals>>

\* what a writer's return leaves behind
Written(op, values, w) ==
    /\ vres' = [op |-> op, tag |-> w.res.tag, val |-> w.res.val]
    /\ vbuf' = w.buf
    /\ vvals' = values
    /\ vpc' = IF w.res.tag = "Ok" THEN "written" ELSE "failed"
    /\ UNCHANGED <<vin, view>>

WriteF32 ==
    /\ vpc = "editing"
    /\ \E values \in SlicesOf(F32Samples, MaxVals) :
          Written("write_f32", values, write_f32(view, vbuf, values))

WriteI16 ==
    /\ vpc = "editing"
    /\ \E values \in SlicesOf(I16Samples, MaxVals) :
          Written("write_i16", values, write_i16(view, vbuf, values))

WriteU16 ==
    /\ vpc = "editing"
    /\ \E values \in SlicesOf(U16Samples, MaxVals) :
          Written("write_u16", values, write_u16(view, vbuf, values))

WriteI8 ==
    /\ vpc = "editing"
    /\ \E values \in SlicesOf(I8Samples, MaxVals) :
          Written("write_i8", values, write_i8(view, vbuf, values))

WriteInt16Complex ==
    /\ vpc = "editing"
    /\ \E values \in SlicesOf(Int16ComplexSamples, MaxVals) :
          Written("write_int16_complex", values, write_int16_complex(view, vbuf, values))

WriteFloat32Complex ==
    /\ vpc = "editing"
    /\ \E values \in SlicesOf(Float32ComplexSamples, MaxVals) :
          Written("write_float32_complex", values,
                  write_float32_complex(view, vbuf, values))

WritePacked4bit ==
    /\ vpc = "editing"
    /\ \E values \in SlicesOf(Packed4BitSamples, MaxVals) :
          Written("write_packed4bit", values, write_packed4bit(view, vbuf, values))

\* what a reader's return leaves behind
ReadBack(op, res) ==
    /\ vres' = [op |-> op, tag |-> res.tag, val |-> res.val]
    /\ vpc' = IF vpc = "reopened" THEN "read_back" ELSE "read"
    /\ UNCHANGED <<vin, vbuf, view, vvals>>

DataAsF32 ==
    /\ vpc \in {"viewing", "reopened"}
    /\ ReadBack("data_as_f32", data_as_f32(view, vbuf))

DataAsI16 ==
    /\ vpc \in {"viewing", "reopened"}
    /\ ReadBack("data_as_i16", data_as_i16(view, vbuf))

DataAsU16 ==
    /\ vpc \in {"viewing", "reopened"}
    /\ ReadBack("data_as_u16", data_as_u16(view, vbuf))

DataAsI8 ==
    /\ vpc \in {"viewing", "reopened"}
    /\ ReadBack("data_as_i8", data_as_i8(view, vbuf))

\* view.ext_header() of a MrcView
ExtHeader ==
    /\ vpc \in {"viewing", "reopened"}
    /\ ReadBack("ext_header", Ok(ext_header(view, vbuf)))

\* the extension bytes handed to write_ext_header: 0..MaxExt+1 bytes BB CC DD ..
ExtInputs == { [k \in 1..n |-> (170 + (17 * k)) % 256] : n \in 0..(MaxExt + 1) }

\* view.write_ext_header(&d)
WriteExtHeader ==
    /\ vpc = "editing"
    /\ \E d \in ExtInputs :
          LET w == write_ext_header(view, vbuf, ArrayOf(d))
          IN  /\ vres' = [op |-> "write_ext_header", tag |-> w.res.tag,
                          val |-> w.res.val]
              /\ vbuf' = w.buf
              /\ vvals' = d
              /\ vpc' = IF w.res.tag = "Ok" THEN "ext_written" ELSE "ext_failed"
    /\ UNCHANGED <<vin, view>>

\* view.save("out.mrc")
Save ==
    /\ vpc \in {"viewing", "reopened"}
    /\ ReadBack("save", save(view, "out.mrc"))

\* view.ext_header() of a MrcViewMut
ExtHeaderMut ==
    /\ vpc = "editing"
    /\ ReadBack("ext_header", Ok(ext_header(view, vbuf)))

\* view.data() of a MrcView
Data ==
    /\ vpc \in {"viewing", "reopened"}
    /\ ReadBack("data", Ok(ViewData(view, vbuf)))

DataAsInt16Complex ==
    /\ vpc \in {"viewing", "reopened"}
    /\ ReadBack("data_as_int16_complex", data_as_int16_complex(view, vbuf))

DataAsFloat32Complex ==
    /\ vpc \in {"viewing", "reopened"}
    /\ ReadBack("data_as_float32_complex", data_as_float32_complex(view, vbuf))

DataAsPacked4bit ==
    /\ vpc \in {"viewing", "reopened"}
    /\ ReadBack("data_as_packed4bit", data_as_packed4bit(view, vbuf))

---------------------------------------------------------------------------
(* The block scenario: a sample is read from a block, or the block is     *)
(* filled by a setter and decoded back                                    *)

BlockModes ==
    { "Int8", "Int16", "Float32", "Int16Complex", "Float32Complex", "Uint16",
      "Float16", "Packed4Bit" }

BlockInputs ==
    { DataBlockNew(PatternBytes(n), m, e, vc) :
        n \in 0..MaxBytes, m \in BlockModes, e \in FileEndian, vc \in 0..MaxVoxels }

\* the indices handed to the getters; -1 stands for usize::MAX
IndexSamples == (-1)..MaxIndex

InitBlock ==
    /\ CodecIdle
    /\ HeaderIdle
    /\ ViewIdle
    /\ SampleIdle
    /\ FileIdle
    /\ overflow_checks \in BOOLEAN
    /\ blk \in BlockInputs
    /\ bvals = "none"
    /\ bout = "none"
    /\ bres = "none"
    /\ bpc = "fresh"

\* what a getter's return leaves behind
Got(op, index, res) ==
    /\ bres' = [op |-> op, index |-> index, tag |-> res.tag, val |-> res.val]
    /\ bpc' = "got"
    /\ UNCHANGED <<blk, bvals, bout>>

GetF32 == bpc = "fresh" /\ \E i \in IndexSamples : Got("get_f32", i, get_f32(blk, i))

GetI16 == bpc = "fresh" /\ \E i \in IndexSamples : Got("get_i16", i, get_i16(blk, i))

GetU16 == bpc = "fresh" /\ \E i \in IndexSamples : Got("get_u16", i, get_u16(blk, i))

GetI8 == bpc = "fresh" /\ \E i \in IndexSamples : Got("get_i8", i, get_i8(blk, i))

GetInt16Complex ==
    /\ bpc = "fresh"
    /\ \E i \in IndexSamples : Got("get_int16_complex", i, get_int16_complex(blk, i))

GetFloat32Complex ==
    /\ bpc = "fresh"
    /\ \E i \in IndexSamples : Got("get_float32_complex", i, get_float32_complex(blk, i))

GetPacked4bitValue ==
    /\ bpc = "fresh"
    /\ \E i \in IndexSamples : Got("get_packed4bit_value", i, get_packed4bit_value(blk, i))

GetPacked4bit ==
    /\ bpc = "fresh"
    /\ \E i \in IndexSamples : Got("get_packed4bit", i, get_packed4bit(blk, i))

\* blk.len_voxels()
LenVoxels ==
    /\ bpc = "fresh"
    /\ bres' = [op |-> "len_voxels", tag |-> "Ok", val |-> len_voxels(blk)]
    /\ bpc' = "measured"
    /\ UNCHANGED <<blk, bvals, bout>>

\* what the creation of an iterator leaves behind
Iterating(op, res) ==
    /\ bres' = [op |-> op, tag |-> res.tag, val |-> res.val]
    /\ bpc' = IF res.tag = "Ok" THEN "iterating" ELSE "failed"
    /\ UNCHANGED <<blk, bvals, bout>>

IterF32 == bpc = "fresh" /\ Iterating("iter_f32", iter_f32(blk))

IterI16 == bpc = "fresh" /\ Iterating("iter_i16", iter_i16(blk))

IterU16 == bpc = "fresh" /\ Iterating("iter_u16", iter_u16(blk))

IterI8 == bpc = "fresh" /\ Iterating("iter_i8", iter_i8(blk))

IterInt16Complex ==
    bpc = "fresh" /\ Iterating("iter_int16_complex", iter_int16_complex(blk))

IterFloat32Complex ==
    bpc = "fresh" /\ Iterating("iter_float32_complex", iter_float32_complex(blk))

IterPacked4bit == bpc = "fresh" /\ Iterating("iter_packed4bit", iter_packed4bit(blk))

IterPacked4bitValues ==
    bpc = "fresh" /\ Iterating("iter_packed4bit_values", iter_packed4bit_values(blk))

\* what draining the iterator bres.val yields
ItemsOf(it, b) ==
    CASE it = "iter_f32"               -> iter_f32_items(b)
      [] it = "iter_i16"               -> iter_i16_items(b)
      [] it = "iter_u16"               -> iter_u16_items(b)
      [] it = "iter_i8"                -> iter_i8_items(b)
      [] it = "iter_int16_complex"     -> iter_int16_complex_items(b)
      [] it = "iter_float32_complex"   -> iter_float32_complex_items(b)
      [] it = "iter_packed4bit"        -> iter_packed4bit_items(b)
      [] it = "iter_packed4bit_values" -> iter_packed4bit_values_items(b)

\* the caller drains the iterator (collect)
Collect ==
    /\ bpc = "iterating"
    /\ LET items == ItemsOf(bres.val, blk)
       IN  bres' = [op |-> bres.op, tag |-> items.tag, val |-> items.val]
    /\ bpc' = "collected"
    /\ UNCHANGED <<blk, bvals, bout>>

\* the same iter_T is called again on the block and drained again
Restart ==
    /\ bpc = "collected"
    /\ bres.tag = "Ok"
    /\ LET items == ItemsOf(bres.op, blk)
       IN  bres' = [op |-> bres.op, tag |-> items.tag, val |-> items.val,
                    first |-> bres.val]
    /\ bpc' = "restarted"
    /\ UNCHANGED <<blk, bvals, bout>>

\* the out slices handed to read_T_into hold 0..MaxVals+1 copies of a filler
OutInputs(filler) == { [k \in 1..n |-> filler] : n \in 0..(MaxVals + 1) }

\* what a read_T_into's return leaves behind
Filled(op, rd) ==
    /\ bres' = [op |-> op, tag |-> rd.res.tag, val |-> rd.res.val]
    /\ bout' = rd.out
    /\ bpc' = "filled"
    /\ UNCHANGED <<blk, bvals>>

ReadF32Into ==
    /\ bpc = "fresh"
    /\ \E o \in OutInputs(7) : Filled("read_f32_into", read_f32_into(blk, o))

ReadI16Into ==
    /\ bpc = "fresh"
    /\ \E o \in OutInputs(7) : Filled("read_i16_into", read_i16_into(blk, o))

ReadU16Into ==
    /\ bpc = "fresh"
    /\ \E o \in OutInputs(7) : Filled("read_u16_into", read_u16_into(blk, o))

ReadI8Into ==
    /\ bpc = "fresh"
    /\ \E o \in OutInputs(7) : Filled("read_i8_into", read_i8_into(blk, o))

ReadInt16ComplexInto ==
    /\ bpc = "fresh"
    /\ \E o \in OutInputs([real |-> 7, imag |-> 7]) :
          Filled("read_int16_complex_into", read_int16_complex_into(blk, o))

ReadFloat32ComplexInto ==
    /\ bpc = "fresh"
    /\ \E o \in OutInputs([real |-> 7, imag |-> 7]) :
          Filled("read_float32_complex_into", read_float32_complex_into(blk, o))

ReadPacked4bitInto ==
    /\ bpc = "fresh"
    /\ \E o \in OutInputs(Packed4Bit_new(7, 7).val) :
          Filled("read_packed4bit_into", read_packed4bit_into(blk, o))

\* what a setter's return leaves behind
WasSet(op, values, s) ==
    /\ bres' = [op |-> op, tag |-> s.res.tag, val |-> s.res.val]
    /\ blk' = [blk EXCEPT !.bytes = s.bytes]
    /\ bvals' = values
    /\ bpc' = IF s.res.tag = "Ok" THEN "set" ELSE "failed"
    /\ UNCHANGED bout

SetF32 ==
    /\ bpc = "fresh"
    /\ \E values \in SlicesOf(F32Samples, MaxVals) :
          WasSet("set_f32", values, set_f32(blk, values))

SetI16 ==
    /\ bpc = "fresh"
    /\ \E values \in SlicesOf(I16Samples, MaxVals) :
          WasSet("set_i16", values, set_i16(blk, values))

SetU16 ==
    /\ bpc = "fresh"
    /\ \E values \in SlicesOf(U16Samples, MaxVals) :
          WasSet("set_u16", values, set_u16(blk, values))

SetI8 ==
    /\ bpc = "fresh"
    /\ \E values \in SlicesOf(I8Samples, MaxVals) :
          WasSet("set_i8", values, set_i8(blk, values))

SetInt16Complex ==
    /\ bpc = "fresh"
    /\ \E values \in SlicesOf(Int16ComplexSamples, MaxVals) :
          WasSet("set_int16_complex", values, set_int16_complex(blk, values))

SetFloat32Complex ==
    /\ bpc = "fresh"
    /\ \E values \in SlicesOf(Float32ComplexSamples, MaxVals) :
          WasSet("set_float32_complex", values, set_float32_complex(blk, values))

SetPacked4bit ==
    /\ bpc = "fresh"
    /\ \E values \in SlicesOf(Packed4BitSamples, MaxVals) :
          WasSet("set_packed4bit", values, set_packed4bit(blk, values))

\* what a decoder's return leaves behind; the DataBlock it is called on is
\* DataBlock::new over the bytes, mode, byte order and count of blk
Decoded(op, res) ==
    /\ bres' = [op |-> op, tag |-> res.tag, val |-> res.val]
    /\ bpc' = IF bpc = "set" THEN "read_back" ELSE "read"
    /\ UNCHANGED <<blk, bvals, bout>>

ToVecF32 == bpc \in {"fresh", "set"} /\ Decoded("to_vec_f32", to_vec_f32(blk))

ToVecI16 == bpc \in {"fresh", "set"} /\ Decoded("to_vec_i16", to_vec_i16(blk))

ToVecU16 == bpc \in {"fresh", "set"} /\ Decoded("to_vec_u16", to_vec_u16(blk))

AsI8 == bpc \in {"fresh", "set"} /\ Decoded("as_i8", as_i8(blk))

AsInt16Complex ==
    bpc \in {"fresh", "set"} /\ Decoded("as_int16_complex", as_int16_complex(blk))

AsFloat32Complex ==
    bpc \in {"fresh", "set"} /\ Decoded("as_float32_complex", as_float32_complex(blk))

AsPacked4bit ==
    bpc \in {"fresh", "set"} /\ Decoded("as_packed4bit", as_packed4bit(blk))

---------------------------------------------------------------------------
(* The data scenario: either the view scenario or the block scenario *)

InitData == InitView \/ InitBlock

\* a step of the view scenario leaves the rest alone
ViewFrame ==
    UNCHANGED <<codecVars, headerVars, blockVars, sampleVars, fileVars,
                overflow_checks>>

\* a step of the block scenario leaves the rest alone
BlockFrame ==
    UNCHANGED <<codecVars, headerVars, viewVars, sampleVars, fileVars,
                overflow_checks>>

NextData ==
    \/ MrcViewNew /\ ViewFrame
    \/ MrcViewMutNew /\ ViewFrame
    \/ WriteF32 /\ ViewFrame
    \/ WriteI16 /\ ViewFrame
    \/ WriteU16 /\ ViewFrame
    \/ WriteI8 /\ ViewFrame
    \/ WriteInt16Complex /\ ViewFrame
    \/ WriteFloat32Complex /\ ViewFrame
    \/ WritePacked4bit /\ ViewFrame
    \/ DataAsF32 /\ ViewFrame
    \/ DataAsI16 /\ ViewFrame
    \/ DataAsU16 /\ ViewFrame
    \/ DataAsI8 /\ ViewFrame
    \/ DataAsInt16Complex /\ ViewFrame
    \/ DataAsFloat32Complex /\ ViewFrame
    \/ DataAsPacked4bit /\ ViewFrame
    \/ ExtHeader /\ ViewFrame
    \/ ExtHeaderMut /\ ViewFrame
    \/ Save /\ ViewFrame
    \/ WriteExtHeader /\ ViewFrame
    \/ Data /\ ViewFrame
    \/ GetF32 /\ BlockFrame
    \/ GetI16 /\ BlockFrame
    \/ GetU16 /\ BlockFrame
    \/ GetI8 /\ BlockFrame
    \/ GetInt16Complex /\ BlockFrame
    \/ GetFloat32Complex /\ BlockFrame
    \/ GetPacked4bitValue /\ BlockFrame
    \/ GetPacked4bit /\ BlockFrame
    \/ LenVoxels /\ BlockFrame
    \/ IterF32 /\ BlockFrame
    \/ IterI16 /\ BlockFrame
    \/ IterU16 /\ BlockFrame
    \/ IterI8 /\ BlockFrame
    \/ IterInt16Complex /\ BlockFrame
    \/ IterFloat32Complex /\ BlockFrame
    \/ IterPacked4bit /\ BlockFrame
    \/ IterPacked4bitValues /\ BlockFrame
    \/ Collect /\ BlockFrame
    \/ Restart /\ BlockFrame
    \/ ReadF32Into /\ BlockFrame
    \/ ReadI16Into /\ BlockFrame
    \/ ReadU16Into /\ BlockFrame
    \/ ReadI8Into /\ BlockFrame
    \/ ReadInt16ComplexInto /\ BlockFrame
    \/ ReadFloat32ComplexInto /\ BlockFrame
    \/ ReadPacked4bitInto /\ BlockFrame
    \/ SetF32 /\ BlockFrame
    \/ SetI16 /\ BlockFrame
    \/ SetU16 /\ BlockFrame
    \/ SetI8 /\ BlockFrame
    \/ SetInt16Complex /\ BlockFrame
    \/ SetFloat32Complex /\ BlockFrame
    \/ SetPacked4bit /\ BlockFrame
    \/ ToVecF32 /\ BlockFrame
    \/ ToVecI16 /\ BlockFrame
    \/ ToVecU16 /\ BlockFrame
    \/ AsI8 /\ BlockFrame
    \/ AsInt16Complex /\ BlockFrame
    \/ AsFloat32Complex /\ BlockFrame
    \/ AsPacked4bit /\ BlockFrame

SpecData == InitData /\ [][NextData]_vars

---------------------------------------------------------------------------
(* The sample scenario: the codecs of the packed and the complex samples  *)
(* and the machine stamp of FileEndian, called on their own               *)

\* the parts of the Int16Complex samples
I16Parts == {258, -2, -32768, 32767}

\* the parts of the Float32Complex samples, as bit patterns (1.0,
\* 0x01020304, a negative NaN, the quiet NaN)
F32Parts == {1065353216, 16909060, -4194304, 2143289344}

\* the bytes the machine stamps are made of
StampBytes == {0, 17, 68, 255}

\* the arguments of a call: which call, the byte order, the numbers
SampleInputs ==
    { [kind |-> "byte", e |-> e, args |-> <<b>>] : e \in FileEndian, b \in 0..255 }
    \cup { [kind |-> "nibbles", e |-> e, args |-> <<a, b>>] :
             e \in FileEndian, a \in 0..15, b \in 0..15 }
    \cup { [kind |-> "int16_complex", e |-> e, args |-> <<re, im>>] :
             e \in FileEndian, re \in I16Parts, im \in I16Parts }
    \cup { [kind |-> "float32_complex", e |-> e, args |-> <<re, im>>] :
             e \in FileEndian, re \in F32Parts, im \in F32Parts }
    \cup { [kind |-> "machst", e |-> "LittleEndian", args |-> <<b0, b1, b2, b3>>] :
             b0 \in StampBytes, b1 \in StampBytes, b2 \in StampBytes,
             b3 \in StampBytes }
    \cup { [kind |-> "endian", e |-> e, args |-> << >>] : e \in FileEndian }

InitSample ==
    /\ CodecIdle
    /\ HeaderIdle
    /\ ViewIdle
    /\ BlockIdle
    /\ FileIdle
    /\ overflow_checks = FALSE
    /\ sin \in SampleInputs
    /\ sres = "none"
    /\ spc = "input"

\* Packed4Bit::decode(e, &[byte]), then first() and second()
Packed4BitDecode ==
    /\ spc = "input"
    /\ sin.kind = "byte"
    /\ LET p == Packed4Bit_decode(sin.e, ArrayOf(sin.args))
       IN  sres' = [ bytes |-> ArrayOf(sin.args),
                     vals  |-> << Packed4Bit_first(p), Packed4Bit_second(p) >>,
                     e     |-> sin.e ]
    /\ spc' = "decoded"
    /\ UNCHANGED sin

\* Packed4Bit::new(a, b).encode(e, &mut out)
Packed4BitEncode ==
    /\ spc = "input"
    /\ sin.kind = "nibbles"
    /\ LET p == Packed4Bit_new(sin.args[1], sin.args[2]).val
       IN  sres' = [ bytes |-> Packed4Bit_encode(p, sin.e), vals |-> << >>,
                     e |-> sin.e ]
    /\ spc' = "encoded"
    /\ UNCHANGED sin

\* Packed4Bit::decode(e2, &out) of the byte just encoded, in either byte order
Packed4BitDecodeEncoded ==
    /\ spc = "encoded"
    /\ sin.kind = "nibbles"
    /\ \E e2 \in FileEndian :
          LET p == Packed4Bit_decode(e2, sres.bytes)
          IN  sres' = [ bytes |-> sres.bytes,
                        vals  |-> << Packed4Bit_first(p), Packed4Bit_second(p) >>,
                        e     |-> e2 ]
    /\ spc' = "round_trip"
    /\ UNCHANGED sin

\* Int16Complex { real, imag }.encode(e, &mut out)
Int16ComplexEncode ==
    /\ spc = "input"
    /\ sin.kind = "int16_complex"
    /\ sres' = [ bytes |-> Int16Complex_encode(
                             [real |-> sin.args[1], imag |-> sin.args[2]], sin.e),
                 vals |-> << >>, e |-> sin.e ]
    /\ spc' = "encoded"
    /\ UNCHANGED sin

\* Int16Complex::decode(e, &out) of the bytes just encoded
Int16ComplexDecode ==
    /\ spc = "encoded"
    /\ sin.kind = "int16_complex"
    /\ LET c == Int16Complex_decode(sin.e, sres.bytes)
       IN  sres' = [ bytes |-> sres.bytes, vals |-> << c.real, c.imag >>,
                     e |-> sin.e ]
    /\ spc' = "round_trip"
    /\ UNCHANGED sin

\* Float32Complex { real, imag }.encode(e, &mut out)
Float32ComplexEncode ==
    /\ spc = "input"
    /\ sin.kind = "float32_complex"
    /\ sres' = [ bytes |-> Float32Complex_encode(
                             [real |-> sin.args[1], imag |-> sin.args[2]], sin.e),
                 vals |-> << >>, e |-> sin.e ]
    /\ spc' = "encoded"
    /\ UNCHANGED sin

\* Float32Complex::decode(e, &out) of the bytes just encoded
Float32ComplexDecode ==
    /\ spc = "encoded"
    /\ sin.kind = "float32_complex"
    /\ LET c == Float32Complex_decode(sin.e, sres.bytes)
       IN  sres' = [ bytes |-> sres.bytes, vals |-> << c.real, c.imag >>,
                     e |-> sin.e ]
    /\ spc' = "round_trip"
    /\ UNCHANGED sin

\* FileEndian::from_machst(&stamp)
FromMachst ==
    /\ spc = "input"
    /\ sin.kind = "machst"
    /\ sres' = [ bytes |-> ArrayOf(sin.args), vals |-> << >>,
                 e |-> from_machst(ArrayOf(sin.args)) ]
    /\ spc' = "detected"
    /\ UNCHANGED sin

\* e.to_machst()
ToMachst ==
    /\ spc = "input"
    /\ sin.kind = "endian"
    /\ sres' = [ bytes |-> to_machst(sin.e), vals |-> << >>, e |-> sin.e ]
    /\ spc' = "stamped"
    /\ UNCHANGED sin

\* FileEndian::from_machst(&e.to_machst())
FromMachstOfStamp ==
    /\ spc = "stamped"
    /\ sres' = [ bytes |-> sres.bytes, vals |-> << >>,
                 e |-> from_machst(sres.bytes) ]
    /\ spc' = "round_trip"
    /\ UNCHANGED sin

\* a step of the sample scenario leaves the rest alone
SampleFrame ==
    UNCHANGED <<codecVars, headerVars, viewVars, blockVars, fileVars,
                overflow_checks>>

NextSample ==
    \/ Packed4BitDecode /\ SampleFrame
    \/ Packed4BitEncode /\ SampleFrame
    \/ Packed4BitDecodeEncoded /\ SampleFrame
    \/ Int16ComplexEncode /\ SampleFrame
    \/ Int16ComplexDecode /\ SampleFrame
    \/ Float32ComplexEncode /\ SampleFrame
    \/ Float32ComplexDecode /\ SampleFrame
    \/ FromMachst /\ SampleFrame
    \/ ToMachst /\ SampleFrame
    \/ FromMachstOfStamp /\ SampleFrame

SpecSample == InitSample /\ [][NextSample]_vars

---------------------------------------------------------------------------
(* Claims about the codec *)

\* the machine stamp is one of the two recognised ones (0x44 0x44 .. or 0x11 0x11 ..)
RecognisedStamp(m) == (m[0] = 68 /\ m[1] = 68) \/ (m[0] = 17 /\ m[1] = 17)

\* C1: for every header r with a little-endian or big-endian machine stamp,
\* decoding the 1024 bytes that r.encode_to_bytes produced gives back r, field
\* for field: every integer field, every float field (as its bit pattern), the
\* reserved region, map, machst and the label area.
C1_RoundTrip ==
    (cpc = "roundtrip_done" /\ RecognisedStamp(r.machst)) =>
        /\ DOMAIN dec = DOMAIN r
        /\ \A f \in DOMAIN r : dec[f] = r[f]

\* a big-endian record with a negative nx and ny = 0x00000102 went through
\* encode (ny is stored most significant byte first) and decode
C1_Witness ==
    /\ cpc = "roundtrip_done"
    /\ r.machst[0] = 17 /\ r.machst[1] = 17
    /\ r.nx < 0
    /\ r.ny = 258
    /\ out[6] = 1 /\ out[7] = 2
    /\ dec.ny = 258

\* the field table of the on-disk record: the integer and the float fields
\* with their byte offsets
NumericFieldTable ==
    { <<"nx", 0>>, <<"ny", 4>>, <<"nz", 8>>, <<"mode", 12>>,
      <<"nxstart", 16>>, <<"nystart", 20>>, <<"nzstart", 24>>,
      <<"mx", 28>>, <<"my", 32>>, <<"mz", 36>>,
      <<"xlen", 40>>, <<"ylen", 44>>, <<"zlen", 48>>,
      <<"alpha", 52>>, <<"beta", 56>>, <<"gamma", 60>>,
      <<"mapc", 64>>, <<"mapr", 68>>, <<"maps", 72>>,
      <<"dmin", 76>>, <<"dmax", 80>>, <<"dmean", 84>>,
      <<"ispg", 88>>, <<"nsymbt", 92>>,
      <<"rms", 216>>, <<"nlabl", 220>> }

\* the four bytes of the 32-bit value v, most significant byte first
BytesMsbFirst(v) ==
    LET u == Low31(v)
    IN  << (u \div 16777216) + (IF v < 0 THEN 128 ELSE 0),
           (u \div 65536) % 256, (u \div 256) % 256, u % 256 >>

\* the four bytes of b at offset o are the value v in the byte order that
\* bytes 212-215 of b announce
HoldsAt(b, o, v) ==
    LET msb == BytesMsbFirst(v)
    IN  IF b[212] = 17 /\ b[213] = 17
        THEN \A k \in 0..3 : b[o + k] = msb[k + 1]
        ELSE \A k \in 0..3 : b[o + k] = msb[4 - k]

\* C2: decode_from_bytes reads every integer and float field at its offset of
\* the field table in the byte order of bytes 212-215, and copies the format
\* signature (208-211), the machine stamp (212-215), the reserved region
\* (96-195) and the label area (224-1023) byte for byte.
C2_DecodeLayout ==
    (cpc = "decoded") =>
        /\ \A fo \in NumericFieldTable : HoldsAt(raw, fo[2], dec[fo[1]])
        /\ \A i \in 0..2 : HoldsAt(raw, 196 + (4 * i), dec.origin[i])
        /\ \A i \in 0..3 : dec.map[i] = raw[208 + i]
        /\ \A i \in 0..3 : dec.machst[i] = raw[212 + i]
        /\ \A i \in 0..99 : dec.extra[i] = raw[96 + i]
        /\ \A i \in 0..799 : dec.label[i] = raw[224 + i]

\* a big-endian file whose first four bytes are not a palindrome was decoded
C2_Witness ==
    /\ cpc = "decoded"
    /\ raw[212] = 17 /\ raw[213] = 17
    /\ raw[0] # raw[3]
    /\ dec.nx # 0

---------------------------------------------------------------------------
(* Claims about validate() and data_size() *)

PositiveDims(h) == h.nx > 0 /\ h.ny > 0 /\ h.nz > 0

\* C4: validate() is false whenever one of nx, ny, nz is zero or negative, or
\* the mode code is not registered (Mode::from_i32 gives None), or the format
\* signature is not 'MAP '; it is true for a default header whose nx, ny, nz
\* were set to positive values.
C4_ValidateLaws ==
    (hpc = "validated") =>
        /\ (\/ vh.nx <= 0 \/ vh.ny <= 0 \/ vh.nz <= 0
            \/ from_i32(vh.mode) = "None"
            \/ \E i \in 0..3 : vh.map[i] # <<77, 65, 80, 32>>[i + 1])
           => (hres = FALSE)
        /\ (PositiveDims(vh)
            /\ vh = [HeaderNew EXCEPT !.nx = vh.nx, !.ny = vh.ny, !.nz = vh.nz])
           => (hres = TRUE)

\* validate() ran on a header that is valid but for nz = 0
C4_Witness ==
    /\ hpc = "validated"
    /\ vh.nx > 0 /\ vh.ny > 0 /\ vh.nz = 0
    /\ vh.mode = 2 /\ vh.map = MAP_ID
    /\ hres = FALSE

IsPermutation123(h) == {h.mapc, h.mapr, h.maps} = {1, 2, 3}

\* C5: validate() is false for every header whose (mapc, mapr, maps) is not a
\* permutation of {1,2,3}, even when dimensions, mode and signature are
\* valid, and true for the six permutations.
C5_AxisPermutation ==
    (hpc = "validated" /\ PositiveDims(vh) /\ from_i32(vh.mode) # "None"
        /\ vh.map = MAP_ID /\ vh.ispg = 1)
    => (hres = IsPermutation123(vh))

IspgLegal(g) == (0 <= g /\ g <= 230) \/ (400 <= g /\ g <= 630)

\* C6: validate() is false for every header whose ispg is outside the legal
\* range 0..230, 400..630 (-1, 231, 399, 631, 1000) while the other fields
\* are valid, and true for the values inside it.
C6_IspgRange ==
    (hpc = "validated" /\ PositiveDims(vh) /\ from_i32(vh.mode) # "None"
        /\ vh.map = MAP_ID /\ IsPermutation123(vh))
    => (hres = IspgLegal(vh.ispg))

C8_PackedDataSize ==
    (hpc = "sized" /\ PositiveDims(vh) /\ vh.mode = 101)
    => (hres = ((vh.nx * vh.ny * vh.nz) + 1) \div 2)

---------------------------------------------------------------------------
(* Claims about the views and the blocks *)

\* the call just returned is the construction of a view over the caller's
\* untouched buffer, for a header that validates and announces nsymbt >= 0
\* extension bytes
ConstructedFromInput ==
    /\ vpc \in {"viewing", "editing", "failed"}
    /\ vres.op \in {"MrcView::new", "MrcViewMut::new"}
    /\ validate(vin)
    /\ vin.nsymbt >= 0

\* C3: for a header that validates, MrcView::new / MrcViewMut::new succeeds
\* if and only if the buffer holds exactly nsymbt extension bytes followed by
\* exactly data_size() data bytes, and a buffer one byte shorter or one byte
\* longer fails with InvalidDimensions.
C3_ViewConstructionExact ==
    ConstructedFromInput =>
        LET total == vin.nsymbt + data_size(vin).val
        IN  /\ (vres.tag = "Ok") <=> (ALen(vbuf) = total)
            /\ ALen(vbuf) \in {total - 1, total + 1} =>
                  (vres.tag = "Err" /\ vres.val = "InvalidDimensions")

\* the decoder that reads what the setter of the block's mode wrote
BlockDecoderOf(mode) ==
    CASE mode = "Float32" -> "to_vec_f32"
      [] mode = "Int16"   -> "to_vec_i16"
      [] mode = "Uint16"  -> "to_vec_u16"
      [] mode = "Int8"    -> "as_i8"
      [] OTHER            -> "no decoder"

\* the reader that reads what the writer of the header's mode wrote
ViewReaderOf(mode) ==
    CASE mode = 2 -> "data_as_f32"
      [] mode = 1 -> "data_as_i16"
      [] mode = 6 -> "data_as_u16"
      [] mode = 0 -> "data_as_i8"
      [] OTHER    -> "no reader"

\* C9: after set_T(values) on a DataBlockMut or write_T(values) on a
\* MrcViewMut has succeeded, decoding the same bytes with the same mode and
\* the same byte order (to_vec_f32 / to_vec_i16 / to_vec_u16 / as_i8 on the
\* block, data_as_T on a view reopened over the buffer) succeeds and returns
\* exactly values, in either byte order.
C9_WriteReadIdentity ==
    /\ (bpc = "read_back" /\ bres.op = BlockDecoderOf(blk.mode)) =>
          (bres.tag = "Ok" /\ bres.val = bvals)
    /\ vpc # "reopen_failed"
    /\ (vpc = "read_back" /\ vres.op = ViewReaderOf(vin.mode)) =>
          (vres.tag = "Ok" /\ vres.val = vvals)

\* two i16 samples written big-endian into a four-byte block and read back
C9_Witness ==
    /\ bpc = "read_back"
    /\ blk.file_endian = "BigEndian"
    /\ bvals = <<258, -2>>
    /\ blk.bytes = ArrayOf(<<1, 2, 255, 254>>)
    /\ bres.op = "to_vec_i16"
    /\ bres.tag = "Ok"
    /\ bres.val = <<258, -2>>

\* the getter of a mode, and the bytes one sample takes
GetterOf(mode) ==
    CASE mode = "Float32"        -> "get_f32"
      [] mode = "Int16"          -> "get_i16"
      [] mode = "Uint16"         -> "get_u16"
      [] mode = "Int8"           -> "get_i8"
      [] mode = "Int16Complex"   -> "get_int16_complex"
      [] mode = "Float32Complex" -> "get_float32_complex"
      [] mode = "Packed4Bit"     -> "get_packed4bit_value"
      [] OTHER                   -> "no getter"

\* the first byte of sample index and the byte after its last one; the
\* packed samples sit two to a byte
SampleBytes(mode, index) ==
    IF mode = "Packed4Bit" THEN [from |-> index \div 2, to |-> (index \div 2) + 1]
    ELSE LET size == CASE mode = "Int8" -> 1
                       [] mode \in {"Int16", "Uint16"} -> 2
                       [] mode \in {"Float32", "Int16Complex"} -> 4
                       [] OTHER -> 8
         IN  [from |-> index * size, to |-> (index * size) + size]

\* the sample's bytes lie inside the byte range (index -1 is usize::MAX)
SampleInRange(b, index) ==
    /\ index >= 0
    /\ SampleBytes(b.mode, index).to <= ALen(b.bytes)

\* the value the sample's own bytes decode to
SampleValue(b, index) ==
    LET own == Slice(b.bytes, SampleBytes(b.mode, index).from,
                     SampleBytes(b.mode, index).to)
        e   == b.file_endian
    IN  CASE b.mode = "Float32"        -> f32_decode(e, own)
          [] b.mode = "Int16"          -> i16_decode(e, own)
          [] b.mode = "Uint16"         -> u16_decode(e, own)
          [] b.mode = "Int8"           -> u8_as_i8(own[0])
          [] b.mode = "Int16Complex"   -> Int16Complex_decode(e, own)
          [] b.mode = "Float32Complex" -> Float32Complex_decode(e, own)
          [] b.mode = "Packed4Bit"     ->
                IF index % 2 = 0 THEN own[0] % 16 ELSE own[0] \div 16

\* C10: for every DataBlock and every index, the getter of the block's mode
\* never panics; it returns Ok only for a sample whose bytes lie inside the
\* byte range, with the value those bytes decode to, and its only error is
\* InvalidDimensions, returned when the sample's bytes would lie past the end
\* of the byte range (for the packed mode also when the index is not below
\* the declared sample count).
C10_GetNeverPanics ==
    (bpc = "got" /\ bres.op = GetterOf(blk.mode)) =>
        /\ bres.tag # "Panic"
        /\ bres.tag = "Ok" =>
              (SampleInRange(blk, bres.index) /\ bres.val = SampleValue(blk, bres.index))
        /\ bres.tag = "Err" =>
              /\ bres.val = "InvalidDimensions"
              /\ \/ ~SampleInRange(blk, bres.index)
                 \/ (blk.mode = "Packed4Bit" /\ bres.index >= blk.voxel_count)

---------------------------------------------------------------------------
(* Mode checks of the typed operations                                    *)

\* the mode a typed operation of DataBlock, DataBlockMut, MrcView or
\* MrcViewMut requires
ModeOfOp(op) ==
    CASE op \in {"get_f32", "iter_f32", "read_f32_into", "to_vec_f32", "set_f32",
                 "data_as_f32", "write_f32"} -> "Float32"
      [] op \in {"get_i16", "iter_i16", "read_i16_into", "to_vec_i16", "set_i16",
                 "data_as_i16", "write_i16"} -> "Int16"
      [] op \in {"get_u16", "iter_u16", "read_u16_into", "to_vec_u16", "set_u16",
                 "data_as_u16", "write_u16"} -> "Uint16"
      [] op \in {"get_i8", "iter_i8", "read_i8_into", "as_i8", "set_i8",
                 "data_as_i8", "write_i8"} -> "Int8"
      [] op \in {"get_int16_complex", "iter_int16_complex",
                 "read_int16_complex_into", "as_int16_complex",
                 "set_int16_complex", "data_as_int16_complex",
                 "write_int16_complex"} -> "Int16Complex"
      [] op \in {"get_float32_complex", "iter_float32_complex",
                 "read_float32_complex_into", "as_float32_complex",
                 "set_float32_complex", "data_as_float32_complex",
                 "write_float32_complex"} -> "Float32Complex"
      [] op \in {"get_packed4bit", "get_packed4bit_value", "iter_packed4bit",
                 "iter_packed4bit_values", "read_packed4bit_into",
                 "as_packed4bit", "set_packed4bit", "data_as_packed4bit",
                 "write_packed4bit"} -> "Packed4Bit"
      [] OTHER -> "untyped"

\* C11: every typed operation (per-sample get, iterator creation,
\* read_T_into, to_vec_T / as_T / data_as_T, set_T / write_T) called on a
\* block or view whose mode is not the operation's own returns InvalidMode,
\* whatever the lengths of the bytes, of the values and of the out slice
\* are, and leaves the block's bytes and the view's buffer as they were.
\* (Every operation moves bpc or vpc.)
C11_ModeCheckFirst ==
    [][ /\ (bpc # "idle" /\ ModeOfOp(bres'.op) # "untyped"
                /\ ModeOfOp(bres'.op) # blk.mode) =>
              /\ bres'.tag = "Err"
              /\ bres'.val = "InvalidMode"
              /\ blk' = blk
        /\ (vpc # "idle" /\ ModeOfOp(vres'.op) # "untyped"
                /\ ModeOfOp(vres'.op) # from_i32(vin.mode)) =>
              /\ vres'.tag = "Err"
              /\ vres'.val = "InvalidMode"
              /\ vbuf' = vbuf
      ]_<<bpc, vpc>>

\* set_i16 of two values on a three-byte Float32 block: the length is wrong
\* as well, the answer is InvalidMode and the bytes are the block's own
C11_Witness ==
    /\ bpc = "failed"
    /\ bres.op = "set_i16"
    /\ blk.mode = "Float32"
    /\ Len(bvals) = 2
    /\ blk.bytes = PatternBytes(3)
    /\ bres.tag = "Err"
    /\ bres.val = "InvalidMode"

---------------------------------------------------------------------------
(* Setters and bulk readers of the blocks                                 *)

\* the bytes one sample of a mode takes in the file
WidthOf(mode) ==
    CASE mode \in {"Int8", "Packed4Bit"}        -> 1
      [] mode \in {"Int16", "Uint16", "Float16"} -> 2
      [] mode \in {"Float32", "Int16Complex"}    -> 4
      [] mode = "Float32Complex"                 -> 8

\* byte j of the w-byte two's-complement number v laid out in byte order e
ScalarByte(v, w, e, j) ==
    LET i == IF e = "LittleEndian" THEN j ELSE (w - 1) - j
    IN  (v \div (256 ^ i)) % 256

\* byte j of the file form of one sample v of a mode in byte order e
FileByte(mode, v, e, j) ==
    CASE mode = "Float32"        -> ScalarByte(v, 4, e, j)
      [] mode \in {"Int16", "Uint16"} -> ScalarByte(v, 2, e, j)
      [] mode = "Int8"           -> ScalarByte(v, 1, e, j)
      [] mode = "Int16Complex"   ->
            IF j < 2 THEN ScalarByte(v.real, 2, e, j)
            ELSE ScalarByte(v.imag, 2, e, j - 2)
      [] mode = "Float32Complex" ->
            IF j < 4 THEN ScalarByte(v.real, 4, e, j)
            ELSE ScalarByte(v.imag, 4, e, j - 4)
      [] mode = "Packed4Bit"     -> v.values[0] + (16 * v.values[1])

\* the setter of a mode
SetterOf(mode) ==
    CASE mode = "Float32"        -> "set_f32"
      [] mode = "Int16"          -> "set_i16"
      [] mode = "Uint16"         -> "set_u16"
      [] mode = "Int8"           -> "set_i8"
      [] mode = "Int16Complex"   -> "set_int16_complex"
      [] mode = "Float32Complex" -> "set_float32_complex"
      [] mode = "Packed4Bit"     -> "set_packed4bit"
      [] OTHER                   -> "no setter"

\* C12: on a DataBlockMut of the setter's mode, set_T(values) succeeds
\* exactly when values.len() times the sample width equals the byte length;
\* otherwise it returns InvalidDimensions and the bytes are as they were; on
\* success every byte of the block holds the corresponding byte of the
\* encoding of the corresponding value in the block's byte order.
C12_SetExactLength ==
    (bpc \in {"set", "failed"} /\ bres.op = SetterOf(blk.mode)) =>
        LET w == WidthOf(blk.mode)
            n == ALen(blk.bytes)
        IN  /\ (bres.tag = "Ok") <=> (Len(bvals) * w = n)
            /\ (bres.tag # "Ok") =>
                  /\ bres.tag = "Err"
                  /\ bres.val = "InvalidDimensions"
                  /\ blk.bytes = PatternBytes(n)
            /\ (bres.tag = "Ok") =>
                  \A j \in 0..(n - 1) :
                      blk.bytes[j] = FileByte(blk.mode, bvals[(j \div w) + 1],
                                              blk.file_endian, j % w)

\* set_int16_complex of one sample, big-endian, on a four-byte block
C12_Witness ==
    /\ bpc = "set"
    /\ bres.op = "set_int16_complex"
    /\ blk.file_endian = "BigEndian"
    /\ bvals = << [real |-> 258, imag |-> -2] >>
    /\ bres.tag = "Ok"
    /\ blk.bytes = ArrayOf(<<1, 2, 255, 254>>)

\* set_f32 of one sample on an eight-byte block is refused, bytes untouched
C12_WitnessRefused ==
    /\ bpc = "failed"
    /\ bres.op = "set_f32"
    /\ blk.mode = "Float32"
    /\ Len(bvals) = 1
    /\ blk.bytes = PatternBytes(8)
    /\ bres.tag = "Err"

\* the values a sample of a mode can take
InRangeOf(mode, v) ==
    CASE mode = "Float32" -> v \in Int
      [] mode = "Int16"   -> v >= -32768 /\ v <= 32767
      [] mode = "Uint16"  -> v >= 0 /\ v <= 65535
      [] mode = "Int8"    -> v >= -128 /\ v <= 127
      [] mode = "Int16Complex" ->
            /\ v.real >= -32768 /\ v.real <= 32767
            /\ v.imag >= -32768 /\ v.imag <= 32767
      [] mode = "Float32Complex" -> v.real \in Int /\ v.imag \in Int
      [] mode = "Packed4Bit" ->
            /\ v.values[0] >= 0 /\ v.values[0] <= 15
            /\ v.values[1] >= 0 /\ v.values[1] <= 15

\* v is the decoding of element i of the block's bytes
IsDecodingOf(b, mode, i, v) ==
    /\ InRangeOf(mode, v)
    /\ \A j \in 0..(WidthOf(mode) - 1) :
          b.bytes[(i * WidthOf(mode)) + j] = FileByte(mode, v, b.file_endian, j)

\* what the out slices of a mode's read_T_into hold before the call
FillerOf(mode) ==
    CASE mode \in {"Float32", "Int16", "Uint16", "Int8"}  -> 7
      [] mode \in {"Int16Complex", "Float32Complex"} -> [real |-> 7, imag |-> 7]
      [] mode = "Packed4Bit" -> [values |-> ArrayOf(<<7, 7>>)]

C13_WitnessRefused ==
    /\ bpc = "filled"
    /\ bres.op = "read_i16_into"
    /\ blk.mode = "Int16"
    /\ ALen(blk.bytes) = 5
    /\ bres.tag = "Err"
    /\ bout = <<7, 7, 7>>

---------------------------------------------------------------------------
(* Codecs of the packed and complex samples, and the machine stamp        *)

\* C14: decoding a byte as Packed4Bit gives first() = its low nibble and
\* second() = its high nibble (0xAB gives 0x0B and 0x0A), and for every pair
\* (a, b) with a, b in 0..15 decoding the byte that Packed4Bit(a, b) encodes
\* to gives first() = a and second() = b, whatever byte order the encoder
\* and the decoder are handed.
C14_NibbleOrder ==
    /\ (spc = "decoded" /\ sin.kind = "byte") =>
          sres.vals = << sin.args[1] % 16, sin.args[1] \div 16 >>
    /\ (spc \in {"encoded", "round_trip"} /\ sin.kind = "nibbles") =>
          sres.bytes[0] = sin.args[1] + (16 * sin.args[2])
    /\ (spc = "round_trip" /\ sin.kind = "nibbles") => sres.vals = sin.args

\* the byte 0xAB decoded: first() = 0x0B, second() = 0x0A
C14_Witness ==
    /\ spc = "decoded"
    /\ sin.kind = "byte"
    /\ sin.args = <<171>>
    /\ sres.vals = <<11, 10>>

\* Packed4Bit(11, 3) encoded little-endian (0x3B), decoded big-endian
C14_WitnessRoundTrip ==
    /\ spc = "round_trip"
    /\ sin.kind = "nibbles"
    /\ sin.args = <<11, 3>>
    /\ sin.e = "LittleEndian"
    /\ sres.e = "BigEndian"
    /\ sres.bytes[0] = 59
    /\ sres.vals = <<11, 3>>

---------------------------------------------------------------------------
(* The logical samples of a packed block                                  *)

\* logical sample i of packed bytes: the low nibble of byte i / 2 for an
\* even i, its high nibble for an odd i
NibbleAt(bytes, i) ==
    IF i % 2 = 0 THEN bytes[i \div 2] % 16 ELSE bytes[i \div 2] \div 16

\* a packed block whose declared count n lies over ceil(n / 2) bytes
PackedExact ==
    /\ bpc # "idle"
    /\ blk.mode = "Packed4Bit"
    /\ ALen(blk.bytes) = (blk.voxel_count + 1) \div 2

\* C15: on a packed block with declared count n over ceil(n / 2) bytes,
\* iter_packed4bit_values yields exactly n values, sample i being the low
\* nibble of byte i / 2 for even i and its high nibble for odd i (so the
\* high nibble of the last byte is left out when n is odd), len_voxels() is
\* n, and get_packed4bit_value(i) returns sample i for i < n and an error
\* for every other i.
C15_PackedLogicalSamples ==
    PackedExact =>
        /\ (bpc = "collected" /\ bres.op = "iter_packed4bit_values") =>
              /\ bres.tag = "Ok"
              /\ Len(bres.val) = blk.voxel_count
              /\ \A k \in 1..Len(bres.val) :
                    bres.val[k] = NibbleAt(blk.bytes, k - 1)
        /\ (bpc = "measured") => bres.val = blk.voxel_count
        /\ (bpc = "got" /\ bres.op = "get_packed4bit_value") =>
              IF bres.index >= 0 /\ bres.index < blk.voxel_count
              THEN bres.tag = "Ok" /\ bres.val = NibbleAt(blk.bytes, bres.index)
              ELSE bres.tag = "Err"

\* three samples over the two bytes AB D0: 0x0B, 0x0A, 0x00; the 0x0D of the
\* last byte is left out
C15_Witness ==
    /\ PackedExact
    /\ bpc = "collected"
    /\ bres.op = "iter_packed4bit_values"
    /\ blk.voxel_count = 3
    /\ blk.bytes = ArrayOf(<<171, 208>>)
    /\ bres.val = <<11, 10, 0>>

\* the complex sample the arguments of an encode call name
ComplexOf(args) == [real |-> args[1], imag |-> args[2]]

\* C16: a complex sample is stored real part first, imaginary part second
\* (Int16Complex: bytes 0-1 and 2-3; Float32Complex: bytes 0-3 and 4-7),
\* each part in the file's byte order and the parts never swapped, and
\* decoding the encoded bytes in the same byte order returns the sample, in
\* both byte orders.
C16_ComplexLayout ==
    /\ (spc \in {"encoded", "round_trip"} /\ sin.kind = "int16_complex") =>
          /\ ALen(sres.bytes) = 4
          /\ \A j \in 0..3 :
                sres.bytes[j] = FileByte("Int16Complex", ComplexOf(sin.args),
                                         sin.e, j)
    /\ (spc \in {"encoded", "round_trip"} /\ sin.kind = "float32_complex") =>
          /\ ALen(sres.bytes) = 8
          /\ \A j \in 0..7 :
                sres.bytes[j] = FileByte("Float32Complex", ComplexOf(sin.args),
                                         sin.e, j)
    /\ (spc = "round_trip"
           /\ sin.kind \in {"int16_complex", "float32_complex"}) =>
          sres.vals = sin.args

\* Int16Complex { real: 258, imag: -2 } big-endian: 01 02 FF FE, and back
C16_Witness ==
    /\ spc = "round_trip"
    /\ sin.kind = "int16_complex"
    /\ sin.e = "BigEndian"
    /\ sin.args = <<258, -2>>
    /\ sres.bytes = ArrayOf(<<1, 2, 255, 254>>)
    /\ sres.vals = <<258, -2>>

\* Float32Complex { real: 1.0, imag: 0x01020304 } little-endian, and back
C16_WitnessFloat ==
    /\ spc = "round_trip"
    /\ sin.kind = "float32_complex"
    /\ sin.e = "LittleEndian"
    /\ sin.args = <<1065353216, 16909060>>
    /\ sres.bytes = ArrayOf(<<0, 0, 128, 63, 4, 3, 2, 1>>)
    /\ sres.vals = sin.args

\* C17: FileEndian::from_machst returns BigEndian exactly when the first two
\* bytes of the stamp are 0x11 0x11 and LittleEndian for every other stamp,
\* whatever bytes 2 and 3 are, and from_machst(e.to_machst()) = e for both
\* byte orders.
C17_MachineStamp ==
    /\ (spc = "detected") =>
          sres.e = IF sin.args[1] = 17 /\ sin.args[2] = 17 THEN "BigEndian"
                   ELSE "LittleEndian"
    /\ (spc = "round_trip" /\ sin.kind = "endian") => sres.e = sin.e

\* the stamp 11 11 FF 44 is big-endian
C17_Witness ==
    /\ spc = "detected"
    /\ sin.args = <<17, 17, 255, 68>>
    /\ sres.e = "BigEndian"

\* BigEndian -> 11 11 00 00 -> BigEndian
C17_WitnessRoundTrip ==
    /\ spc = "round_trip"
    /\ sin.kind = "endian"
    /\ sin.e = "BigEndian"
    /\ sres.bytes = ArrayOf(<<17, 17, 0, 0>>)
    /\ sres.e = "BigEndian"

---------------------------------------------------------------------------
(* The registered mode codes                                              *)

\* C18: Mode::from_i32(c) returns a mode exactly for c in
\* {0, 1, 2, 3, 4, 6, 12, 101} and None for every other code (5, negative
\* codes, i32::MIN, i32::MAX), without panicking; and the codes validate()
\* accepts on an otherwise valid header, and the codes for which
\* data_size() of a header with positive dimensions is not 0, are these
\* same codes.
C18_RegisteredModes ==
    /\ (hpc = "converted") =>
          hres = CASE vh.mode = 0   -> "Int8"
                   [] vh.mode = 1   -> "Int16"
                   [] vh.mode = 2   -> "Float32"
                   [] vh.mode = 3   -> "Int16Complex"
                   [] vh.mode = 4   -> "Float32Complex"
                   [] vh.mode = 6   -> "Uint16"
                   [] vh.mode = 12  -> "Float16"
                   [] vh.mode = 101 -> "Packed4Bit"
                   [] OTHER         -> "None"
    /\ (hpc = "validated" /\ vh.nx > 0 /\ vh.ny > 0 /\ vh.nz > 0
           /\ vh.map = MAP_ID) =>
          (hres <=> from_i32(vh.mode) # "None")
    /\ (hpc = "sized" /\ vh.nx > 0 /\ vh.ny > 0 /\ vh.nz > 0) =>
          (hres # 0 <=> from_i32(vh.mode) # "None")

\* Mode::from_i32(i32::MIN) is None
C18_Witness ==
    /\ hpc = "converted"
    /\ vh.mode = (-2147483647) - 1
    /\ hres = "None"

\* Mode::from_i32(12) is Float16
C18_WitnessRegistered ==
    /\ hpc = "converted"
    /\ vh.mode = 12
    /\ hres = "Float16"

---------------------------------------------------------------------------
(* Construction and regions of the views                                  *)

\* the header fails one of the conditions of Header::validate
InvalidHeaderInput(h) ==
    \/ h.nx <= 0
    \/ h.ny <= 0
    \/ h.nz <= 0
    \/ h.mode \notin {0, 1, 2, 3, 4, 6, 12, 101}
    \/ h.map # MAP_ID

\* C19: MrcView::new / MrcViewMut::new look at the header first: for a
\* header that does not validate they return InvalidHeader, whatever the
\* length of the buffer and whatever nsymbt is, and they return
\* InvalidHeader for no other header.
C19_ValidityFirst ==
    (/\ vpc \in {"viewing", "editing", "failed", "reopened", "reopen_failed"}
     /\ vres.op \in {"MrcView::new", "MrcViewMut::new"}) =>
        ((vres.tag = "Err" /\ vres.val = "InvalidHeader")
            <=> InvalidHeaderInput(vin))

\* MrcView::new of a header with nx = 0 and nsymbt = 2 over an empty buffer
C19_Witness ==
    /\ vpc = "failed"
    /\ vres.op = "MrcView::new"
    /\ vin.nx = 0
    /\ vin.nsymbt = 2
    /\ ALen(vbuf) = 0
    /\ vres.tag = "Err"
    /\ vres.val = "InvalidHeader"

\* MrcViewMut::new of a header with mode 5 and nsymbt = -1
C19_WitnessMut ==
    /\ vpc = "failed"
    /\ vres.op = "MrcViewMut::new"
    /\ vin.mode = 5
    /\ vin.nsymbt = -1
    /\ vres.tag = "Err"
    /\ vres.val = "InvalidHeader"

\* C20: for every view that was constructed, ext_header() is the first
\* nsymbt bytes of the buffer, byte for byte in the buffer's order, and the
\* data region is the buffer from the byte right after them on.
C20_ExtHeaderRegion ==
    /\ (vpc \in {"read", "read_back"} /\ vres.op = "ext_header") =>
          /\ ALen(vres.val) = vin.nsymbt
          /\ \A j \in 0..(vin.nsymbt - 1) : vres.val[j] = vbuf[j]
    /\ (vpc \in {"read", "read_back"} /\ vres.op = "data") =>
          /\ ALen(vres.val) = ALen(vbuf) - vin.nsymbt
          /\ \A j \in 0..(ALen(vres.val) - 1) : vres.val[j] = vbuf[vin.nsymbt + j]

\* two extension bytes AB D0 ahead of the data of a one-sample Int8 volume
C20_Witness ==
    /\ vpc = "read"
    /\ vres.op = "ext_header"
    /\ vin.nsymbt = 2
    /\ vin.mode = 0
    /\ ALen(vbuf) = 3
    /\ vres.val = ArrayOf(<<171, 208>>)

\* the data region of the same view starts with the third byte, F5
C20_WitnessData ==
    /\ vpc = "read"
    /\ vres.op = "data"
    /\ vin.nsymbt = 2
    /\ ALen(vbuf) = 3
    /\ vres.val = ArrayOf(<<245>>)

---------------------------------------------------------------------------
(* The sub-fields of the reserved region                                  *)

\* the number four bytes hold when read most significant byte first
\* (msb = TRUE) or least significant byte first
NumberIn(b0, b1, b2, b3, msb) ==
    LET hi == IF msb THEN b0 ELSE b3
        m1 == IF msb THEN b1 ELSE b2
        m2 == IF msb THEN b2 ELSE b1
        lo == IF msb THEN b3 ELSE b0
        u  == ((hi % 128) * 16777216) + (m1 * 65536) + (m2 * 256) + lo
    IN  IF hi >= 128 THEN (u - 2147483647) - 1 ELSE u

\* the stamp announces a big-endian record
BigStamp(m) == m[0] = 17 /\ m[1] = 17

\* C21: for every i32 v and both machine signatures, set_nversion(v) followed
\* by nversion() returns v, bytes 12-15 of the reserved region then hold v in
\* the record's byte order (least significant byte first for 0x44 0x44, most
\* significant first for 0x11 0x11), and a header decoded from a file's bytes
\* reports as nversion() the number bytes 108-111 hold in the file's byte
\* order.
C21_NversionByteOrder ==
    /\ (cpc \in {"nversion_set", "nversion_read"} /\ RecognisedStamp(r.machst)) =>
          NumberIn(r.extra[12], r.extra[13], r.extra[14], r.extra[15],
                   BigStamp(r.machst)) = acc.arg
    /\ (cpc = "nversion_read" /\ RecognisedStamp(r.machst)) => acc.val = acc.arg
    /\ (cpc = "decoded_nversion"
           /\ RecognisedStamp(ArrayOf(<<raw[212], raw[213]>>))) =>
          acc.val = NumberIn(raw[108], raw[109], raw[110], raw[111],
                             BigStamp(ArrayOf(<<raw[212], raw[213]>>)))

\* a big-endian record after set_nversion(0x01020304): bytes 01 02 03 04
C21_Witness ==
    /\ cpc = "nversion_read"
    /\ BigStamp(r.machst)
    /\ acc.arg = 16909060
    /\ r.extra[12] = 1 /\ r.extra[13] = 2 /\ r.extra[14] = 3 /\ r.extra[15] = 4
    /\ acc.val = 16909060

\* a big-endian file decoded, its nversion() read
C21_WitnessDecoded ==
    /\ cpc = "decoded_nversion"
    /\ BigStamp(ArrayOf(<<raw[212], raw[213]>>))
    /\ acc.val = NumberIn(raw[108], raw[109], raw[110], raw[111], TRUE)
    /\ acc.val # NumberIn(raw[108], raw[109], raw[110], raw[111], FALSE)

\* C22: the extension-type tag at bytes 8-11 of the reserved region follows
\* the record's byte order: on a record with the big-endian signature
\* set_exttyp(v) stores v most significant byte first, and exttyp() of a
\* header decoded from a big-endian file is the number bytes 104-107 hold
\* most significant byte first, as nversion() / set_nversion() do for the
\* version number.
C22_ExttypByteOrder ==
    /\ (cpc \in {"exttyp_set", "exttyp_read"} /\ BigStamp(r.machst)) =>
          NumberIn(r.extra[8], r.extra[9], r.extra[10], r.extra[11], TRUE) = acc.arg
    /\ (cpc = "decoded_exttyp" /\ BigStamp(ArrayOf(<<raw[212], raw[213]>>))) =>
          acc.val = NumberIn(raw[104], raw[105], raw[106], raw[107], TRUE)

\* C23: view construction is total: for every header (one with a negative
\* nsymbt included) and every buffer, MrcView::new and MrcViewMut::new
\* return a view or an error value; they never panic.
C23_ConstructionTotal ==
    (/\ vpc \in {"viewing", "editing", "failed", "reopened", "reopen_failed"}
     /\ vres.op \in {"MrcView::new", "MrcViewMut::new"}) =>
        vres.tag \in {"Ok", "Err"}

---------------------------------------------------------------------------
(* The error kinds of the core                                            *)

\* C24: no operation of Header, Mode, DataBlock, DataBlockMut, MrcView or
\* MrcViewMut returns Error::Io: the core calls no external I/O, so it has
\* no failed I/O to report.
C24_NoIoFromCore ==
    /\ (vpc \notin {"idle", "input"}) => ~(vres.tag = "Err" /\ vres.val = "Io")
    /\ (bpc \notin {"idle", "fresh"}) => ~(bres.tag = "Err" /\ bres.val = "Io")

---------------------------------------------------------------------------
(* The extension bytes of a mutable view                                  *)

\* C25: write_ext_header(d) on a MrcViewMut succeeds exactly when d.len() is
\* the view's extension length; then ext_header() equals d and the data
\* region and the header are as before; on a length mismatch it returns
\* InvalidDimensions and the extension bytes, the data bytes and the header
\* are as before.
C25_WriteExtHeader ==
    (vpc \in {"ext_written", "ext_failed"}) =>
        LET n == ALen(vbuf)
        IN  /\ (vres.tag = "Ok") <=> (Len(vvals) = vin.nsymbt)
            /\ view.header = vin
            /\ \A j \in vin.nsymbt..(n - 1) : vbuf[j] = PatternBytes(n)[j]
            /\ (vres.tag = "Ok") => ext_header(view, vbuf) = ArrayOf(vvals)
            /\ (vres.tag # "Ok") =>
                  /\ vres.tag = "Err"
                  /\ vres.val = "InvalidDimensions"
                  /\ vbuf = PatternBytes(n)

\* two extension bytes BB CC written ahead of the data byte F5
C25_Witness ==
    /\ vpc = "ext_written"
    /\ vin.nsymbt = 2
    /\ vvals = <<187, 204>>
    /\ vbuf = ArrayOf(<<187, 204, 245>>)
    /\ vres.tag = "Ok"

\* one byte offered for an extension of two: refused, nothing written
C25_WitnessRefused ==
    /\ vpc = "ext_failed"
    /\ vin.nsymbt = 2
    /\ Len(vvals) = 1
    /\ vbuf = PatternBytes(3)
    /\ vres.tag = "Err"

---------------------------------------------------------------------------
(* The file scenario: MrcFile::create, write_ext_header, write_data on a  *)
(* path, then MrcFile::open and MrcMmap::open of the file and read_view.  *)
(* A file is whether it exists, its first 1024 bytes (the Header whose    *)
(* memory create copied there; none while the file is empty) and the      *)
(* bytes from offset 1024 on. The path is writable and the device has     *)
(* room: a system call fails only for a missing file or a short read.     *)

\* no file at the path
NoFile == [exists |-> FALSE, head |-> <<>>, tail |-> ArrayOf(<<>>)]

\* File::create(path): the file exists and is empty
File_create == [exists |-> TRUE, head |-> <<>>, tail |-> ArrayOf(<<>>)]

\* the length of the file
FileLen(f) == (1024 * Len(f.head)) + ALen(f.tail)

\* file.write_all_at(&header_bytes, 0)
WriteHeaderAt0(f, h) == [f EXCEPT !.head = <<h>>]

\* file.write_all_at(d, off) for off >= 1024: the file grows to hold the
\* bytes, a gap reads as zeros
write_all_at(f, d, off) ==
    LET at  == off - 1024
        end == IF ALen(d) = 0 THEN 0 ELSE at + ALen(d)
        len == IF end > ALen(f.tail) THEN end ELSE ALen(f.tail)
    IN  [f EXCEPT !.tail =
            [i \in 0..(len - 1) |->
                IF (i >= at) /\ (i < at + ALen(d)) THEN d[i - at]
                ELSE IF i < ALen(f.tail) THEN f.tail[i]
                ELSE 0]]

\* file.read_exact_at(&mut buf, off) for a buf of n bytes, off >= 1024
read_exact_at(f, n, off) ==
    IF (n > 0) /\ ((off + n) > FileLen(f)) THEN Err("Io")
    ELSE Ok(Slice(f.tail, off - 1024, (off - 1024) + n))

\* Header::data_offset
data_offset(h) == usize_add(1024, as_usize(h.nsymbt))

\* vec![0u8; n]
Zeros(n) == [i \in 0..(n - 1) |-> 0]

\* MrcFile::create that opens the file before it looks at the header
MrcFile_create_file_first(f, header) ==
    IF ~validate(header) THEN [res |-> Err("InvalidHeader"), disk |-> File_create]
    ELSE LET f1 == WriteHeaderAt0(File_create, header)
             ext_header_size == as_usize(header.nsymbt)
         IN  IF ext_header_size < 0 THEN [res |-> Panic, disk |-> f1]
             ELSE LET f2 == IF ext_header_size > 0
                            THEN write_all_at(f1, Zeros(ext_header_size), 1024)
                            ELSE f1
                      size == data_size(header)
                  IN  [ res  |-> Ok([ header          |-> header,
                                      data_offset     |-> data_offset(header).val,
                                      data_size       |-> size.val,
                                      ext_header_size |-> ext_header_size,
                                      buffer |-> Zeros(ext_header_size + size.val) ]),
                        disk |-> f2 ]

\* MrcFile::create(path, header): the result and the file afterwards. An
\* extension size of usize::MAX - k has vec! panic (capacity overflow)
\* once the header is on the file.
MrcFile_create(f, header) ==
    IF ~validate(header) THEN [res |-> Err("InvalidHeader"), disk |-> f]
    ELSE LET f1 == WriteHeaderAt0(File_create, header)
             ext_header_size == as_usize(header.nsymbt)
         IN  IF ext_header_size < 0 THEN [res |-> Panic, disk |-> f1]
             ELSE LET f2 == IF ext_header_size > 0
                            THEN write_all_at(f1, Zeros(ext_header_size), 1024)
                            ELSE f1
                      size == data_size(header)
                  IN  [ res  |-> Ok([ header          |-> header,
                                      data_offset     |-> data_offset(header).val,
                                      data_size       |-> size.val,
                                      ext_header_size |-> ext_header_size,
                                      buffer |-> Zeros(ext_header_size + size.val) ]),
                        disk |-> f2 ]

\* MrcFile::write_ext_header(data): the result, the handle and the file
MrcFile_write_ext_header(m, f, d) ==
    IF ALen(d) # m.ext_header_size
    THEN [res |-> Err("InvalidDimensions"), mf |-> m, disk |-> f]
    ELSE [res  |-> Ok(<<>>),
          mf   |-> [m EXCEPT !.buffer = CopyFromSlice(m.buffer, 0, d)],
          disk |-> write_all_at(f, d, 1024)]

\* MrcFile::write_data(data): the result, the handle and the file
MrcFile_write_data(m, f, d) ==
    IF ALen(d) # m.data_size
    THEN [res |-> Err("InvalidDimensions"), mf |-> m, disk |-> f]
    ELSE [res  |-> Ok(<<>>),
          mf   |-> [m EXCEPT !.buffer =
                       CopyFromSlice(m.buffer, m.ext_header_size, d)],
          disk |-> write_all_at(f, d, m.data_offset)]

\* the header, extension bytes and data bytes of MrcView::new(header, buffer)
ViewOver(header, buffer) ==
    LET v == MrcView_new(header, buffer)
    IN  IF v.tag # "Ok" THEN v
        ELSE Ok([ header     |-> v.val.header,
                  ext_header |-> ext_header(v.val, buffer),
                  data       |-> ViewData(v.val, buffer) ])

\* MrcFile::open(path) and read_view() of the MrcFile it returns
MrcFile_open(f) ==
    IF ~f.exists THEN Err("Io")
    ELSE IF FileLen(f) < 1024 THEN Err("Io")
    ELSE LET header == f.head[1]
         IN  IF ~validate(header) THEN Err("InvalidHeader")
             ELSE LET ext_header_size == as_usize(header.nsymbt)
                      offset == data_offset(header)
                      size   == data_size(header)
                      total_size == usize_add(ext_header_size, size.val)
                  IN  IF ext_header_size < 0 THEN Panic
                      ELSE LET ext  == read_exact_at(f, ext_header_size, 1024)
                               data == read_exact_at(f, size.val, offset.val)
                           IN  IF ext.tag # "Ok" THEN ext
                               ELSE IF data.tag # "Ok" THEN data
                               ELSE ViewOver(header, Concat(ext.val, data.val))

\* MrcMmap::open(path) and read_view() of the MrcMmap it returns; mapping
\* an empty file is refused by the system
MrcMmap_open(f) ==
    IF ~f.exists THEN Err("Io")
    ELSE IF FileLen(f) = 0 THEN Err("Io")
    ELSE IF FileLen(f) < 1024 THEN Err("InvalidHeader")
    ELSE LET header == f.head[1]
         IN  IF ~validate(header) THEN Err("InvalidHeader")
             ELSE LET ext_header_size == as_usize(header.nsymbt)
                      offset == data_offset(header)
                      size   == data_size(header)
                      end    == usize_add(offset.val, size.val)
                  IN  IF ext_header_size < 0 THEN Panic
                      ELSE IF FileLen(f) < end.val THEN Err("InvalidDimensions")
                      ELSE ViewOver(header, Slice(f.tail, 0, end.val - 1024))

\* headers handed to create: nx x 1 x 1 samples, nsymbt extension bytes;
\* mode 5 is not a mode
FileHeaderInputs ==
    { [Populated(nx, 1, 1, m, MAP_ID, <<1, 2, 3>>, 1) EXCEPT !.nsymbt = e] :
        nx \in 0..MaxVals, m \in {0, 1, 5}, e \in (-1)..MaxExt }

\* a file that was at the path before: one Int8 sample
OldFile ==
    [ exists |-> TRUE,
      head   |-> <<Populated(1, 1, 1, 0, MAP_ID, <<1, 2, 3>>, 1)>>,
      tail   |-> ArrayOf(<<99>>) ]

\* the byte slices handed to write_ext_header and write_data
FileBytesInputs ==
    { [i \in 0..(n - 1) |-> (seed + (17 * i)) % 256] :
        n \in 0..((2 * MaxVals) + 1), seed \in {66, 170} }

InitFile ==
    /\ CodecIdle
    /\ HeaderIdle
    /\ ViewIdle
    /\ BlockIdle
    /\ SampleIdle
    /\ overflow_checks = FALSE
    /\ fin \in FileHeaderInputs
    /\ disk \in {NoFile, OldFile}
    /\ mf = "none"
    /\ flast = [ext |-> <<>>, data |-> <<>>, refused |-> FALSE]
    /\ fres = "none"
    /\ fpc = "input"

\* MrcFile::create(path, fin)
Create ==
    /\ fpc = "input"
    /\ LET c == MrcFile_create(disk, fin)
       IN  /\ disk' = c.disk
           /\ fres' = [op |-> "create", tag |-> c.res.tag,
                       val |-> IF c.res.tag = "Err" THEN c.res.val ELSE <<>>,
                       before |-> disk]
           /\ mf' = IF c.res.tag = "Ok" THEN c.res.val ELSE "none"
           /\ fpc' = CASE c.res.tag = "Ok"  -> "created"
                       [] c.res.tag = "Err" -> "create_failed"
                       [] OTHER             -> "crashed"
    /\ UNCHANGED <<fin, flast>>

\* file.write_ext_header(d)
FileWriteExtHeader ==
    /\ fpc \in {"created", "written", "refused"}
    /\ \E d \in FileBytesInputs :
          LET w == MrcFile_write_ext_header(mf, disk, d)
          IN  /\ disk' = w.disk
              /\ mf' = w.mf
              /\ fres' = [op |-> "write_ext_header", tag |-> w.res.tag,
                          val |-> w.res.val, arg |-> d,
                          before |-> [disk |-> disk, mf |-> mf],
                          after_refusal |-> (fpc = "refused")]
              /\ flast' = IF w.res.tag = "Ok" THEN [flast EXCEPT !.ext = <<d>>]
                          ELSE flast
              /\ fpc' = IF w.res.tag = "Ok" THEN "written" ELSE "refused"
    /\ UNCHANGED fin

\* file.write_data(d)
FileWriteData ==
    /\ fpc \in {"created", "written", "refused"}
    /\ \E d \in FileBytesInputs :
          LET w == MrcFile_write_data(mf, disk, d)
          IN  /\ disk' = w.disk
              /\ mf' = w.mf
              /\ fres' = [op |-> "write_data", tag |-> w.res.tag,
                          val |-> w.res.val, arg |-> d,
                          before |-> [disk |-> disk, mf |-> mf],
                          after_refusal |-> (fpc = "refused")]
              /\ flast' = IF w.res.tag = "Ok" THEN [flast EXCEPT !.data = <<d>>]
                          ELSE flast
              /\ fpc' = IF w.res.tag = "Ok" THEN "written" ELSE "refused"
    /\ UNCHANGED fin

\* MrcFile::open(path).read_view() once the MrcFile of create is dropped
Open ==
    /\ fpc \in {"create_failed", "created", "written", "refused"}
    /\ fres' = [op |-> "open", made |-> (fpc # "create_failed"),
                file |-> MrcFile_open(disk)]
    /\ mf' = "none"
    /\ fpc' = "file_opened"
    /\ UNCHANGED <<fin, disk, flast>>

\* MrcMmap::open(path).read_view() of the same file
OpenMmap ==
    /\ fpc = "file_opened"
    /\ fres' = [op |-> "open_mmap", made |-> fres.made, file |-> fres.file,
                mmap |-> MrcMmap_open(disk)]
    /\ fpc' = "both_opened"
    /\ UNCHANGED <<fin, disk, mf, flast>>

\* a step of the file scenario leaves the rest alone
FileFrame ==
    UNCHANGED <<codecVars, headerVars, viewVars, blockVars, sampleVars,
                overflow_checks>>

NextFile ==
    \/ Create /\ FileFrame
    \/ FileWriteExtHeader /\ FileFrame
    \/ FileWriteData /\ FileFrame
    \/ Open /\ FileFrame
    \/ OpenMmap /\ FileFrame

SpecFile == InitFile /\ [][NextFile]_vars

---------------------------------------------------------------------------
(* The edit scenario: a MrcViewMut whose header is edited through         *)
(* header_mut() and whose data is poked through data_mut() between typed  *)
(* writes. The data and extension slices stay where new() split them.     *)

\* headers the MrcViewMut is built from: one extension byte, nx samples
EditHeaderInputs ==
    { [Populated(nx, 1, 1, m, MAP_ID, <<1, 2, 3>>, 1) EXCEPT !.nsymbt = 1] :
        nx \in 1..MaxVals, m \in {2, 101} }

\* the numbers assigned through header_mut(): mode, dimensions (the
\* product of two -1 wraps to 1) and nsymbt
EditInputs ==
    { [field |-> "mode", value |-> m] : m \in {0, 2, 101} }
      \cup { [field |-> "nx", value |-> n] : n \in {-1} \cup (1..MaxVals) }
      \cup { [field |-> "ny", value |-> n] : n \in {-1, 1} }
      \cup { [field |-> "nsymbt", value |-> n] : n \in {7} }

\* the machine stamps assigned through header_mut()
StampInputs ==
    { [field |-> "machst", value |-> to_machst(e)] : e \in FileEndian }

\* *view.header_mut() with one field assigned
header_mut(v, edit) ==
    [v EXCEPT !.header =
        CASE edit.field = "mode"   -> [v.header EXCEPT !.mode = edit.value]
          [] edit.field = "nx"     -> [v.header EXCEPT !.nx = edit.value]
          [] edit.field = "ny"     -> [v.header EXCEPT !.ny = edit.value]
          [] edit.field = "nsymbt" -> [v.header EXCEPT !.nsymbt = edit.value]
          [] edit.field = "machst" -> [v.header EXCEPT !.machst = edit.value]]

\* view.data_mut()[i] = value
data_mut(v, buf, i, value) == [buf EXCEPT ![v.data.off + i] = value]

\* the slices handed to the writers: 0..MaxVals values that alternate
\* between two samples
EditSlices(a, b) ==
    { [k \in 1..n |-> IF ((k + s) % 2) = 0 THEN a ELSE b] :
        n \in 0..MaxVals, s \in 0..1 }

\* the buffer is as long as the header asks, or one byte longer
InitEdit ==
    /\ CodecIdle
    /\ HeaderIdle
    /\ BlockIdle
    /\ SampleIdle
    /\ FileIdle
    /\ overflow_checks \in BOOLEAN
    /\ vin \in EditHeaderInputs
    /\ vbuf \in { PatternBytes(vin.nsymbt + data_size(vin).val + extra) :
                    extra \in 0..1 }
    /\ view = "none"
    /\ vvals = "none"
    /\ vres = "none"
    /\ vpc = "input"

\* MrcViewMut::new(vin, &mut vbuf)
EditNew ==
    /\ vpc = "input"
    /\ LET res == MrcViewMut_new(vin, vbuf)
       IN  /\ res.tag = "Ok"
           /\ view' = res.val
    /\ vres' = [op |-> "MrcViewMut::new"]
    /\ vpc' = "editing"
    /\ UNCHANGED <<vin, vbuf, vvals>>

HeaderMut ==
    /\ vpc = "editing"
    /\ \/ \E edit \in EditInputs : view' = header_mut(view, edit)
       \/ \E edit \in StampInputs : view' = header_mut(view, edit)
    /\ vres' = [op |-> "header_mut"]
    /\ UNCHANGED <<vin, vbuf, vvals, vpc>>

\* the first or the last byte of the data is set to 0x5A
DataMut ==
    /\ vpc = "editing"
    /\ view.data.len > 0
    /\ \E i \in {0, view.data.len - 1} : vbuf' = data_mut(view, vbuf, i, 90)
    /\ vres' = [op |-> "data_mut"]
    /\ UNCHANGED <<vin, view, vvals, vpc>>

\* what a writer's return leaves behind, with the buffer as it was before
Rewritten(op, values, w) ==
    /\ vres' = [op |-> op, tag |-> w.res.tag, val |-> w.res.val, before |-> vbuf]
    /\ vbuf' = w.buf
    /\ vvals' = values
    /\ vpc' = IF w.res.tag = "Panic" THEN "panicked" ELSE "returned"
    /\ UNCHANGED <<vin, view>>

RewriteF32 ==
    /\ vpc = "editing"
    /\ \E values \in EditSlices(1065353216, 16909060) :
          Rewritten("write_f32", values, write_f32(view, vbuf, values))

RewriteI8 ==
    /\ vpc = "editing"
    /\ \E values \in EditSlices(1, -128) :
          Rewritten("write_i8", values, write_i8(view, vbuf, values))

RewritePacked4bit ==
    /\ vpc = "editing"
    /\ \E values \in EditSlices(Packed4Bit_new(11, 3).val, Packed4Bit_new(0, 15).val) :
          Rewritten("write_packed4bit", values, write_packed4bit(view, vbuf, values))

\* the caller goes on editing after a write has returned
Continue ==
    /\ vpc = "returned"
    /\ vres' = [op |-> "continue"]
    /\ vvals' = "none"
    /\ vpc' = "editing"
    /\ UNCHANGED <<vin, vbuf, view>>

EditFrame ==
    UNCHANGED <<codecVars, headerVars, blockVars, sampleVars, fileVars,
                overflow_checks>>

NextEdit ==
    \/ EditNew /\ EditFrame
    \/ HeaderMut /\ EditFrame
    \/ DataMut /\ EditFrame
    \/ RewriteF32 /\ EditFrame
    \/ RewriteI8 /\ EditFrame
    \/ RewritePacked4bit /\ EditFrame
    \/ Continue /\ EditFrame

SpecEdit == InitEdit /\ [][NextEdit]_vars

---------------------------------------------------------------------------
(* Iteration over a block                                                 *)

\* what the per-sample get that goes with an iterator returns for index i
GetOf(it, b, i) ==
    CASE it = "iter_f32"               -> get_f32(b, i)
      [] it = "iter_i16"               -> get_i16(b, i)
      [] it = "iter_u16"               -> get_u16(b, i)
      [] it = "iter_i8"                -> get_i8(b, i)
      [] it = "iter_int16_complex"     -> get_int16_complex(b, i)
      [] it = "iter_float32_complex"   -> get_float32_complex(b, i)
      [] it = "iter_packed4bit"        -> get_packed4bit(b, i)
      [] it = "iter_packed4bit_values" -> get_packed4bit_value(b, i)

\* C26: every iter_T call on a block yields a finite sequence whose i-th
\* element is what the per-sample get returns for index i, and calling
\* iter_T again on the unchanged block yields the same sequence from the
\* start; the block's bytes are as before.
C26_IterationRestartable ==
    /\ (bpc \in {"collected", "restarted"}) =>
          /\ bres.tag = "Ok"
          /\ \A k \in 1..Len(bres.val) :
                GetOf(bres.op, blk, k - 1) = Ok(bres.val[k])
          /\ blk.bytes = PatternBytes(ALen(blk.bytes))
    /\ (bpc = "restarted") => bres.val = bres.first

---------------------------------------------------------------------------
(* The two file backends                                                  *)

---------------------------------------------------------------------------
(* Refusals of the file backend                                           *)

\* the data size and the extension size of the file that create(fin) made
FileDataSize == fin.nx * fin.ny * fin.nz * (IF fin.mode = 0 THEN 1 ELSE 2)

FileExtSize == fin.nsymbt

HeaderIsValid ==
    /\ fin.nx >= 1
    /\ fin.ny >= 1
    /\ fin.nz >= 1
    /\ fin.mode \in {0, 1}

\* C28: MrcFile refuses invalid input before any side effect. create with
\* a header that fails validate() returns InvalidHeader and the file at the
\* path is as before (not created, not truncated); write_data and
\* write_ext_header with a length other than the file's data size and
\* extension size return InvalidDimensions and leave the file and the
\* in-memory buffer as they were; a call with the right length succeeds,
\* also right after a refusal.
C28_RejectBeforeSideEffect ==
    /\ (fpc \in {"created", "create_failed", "crashed"}) =>
          /\ (~HeaderIsValid) <=> (fpc = "create_failed")
          /\ (fpc = "create_failed") =>
                /\ fres.val = "InvalidHeader"
                /\ disk = fres.before
                /\ mf = "none"
    /\ (fpc \in {"written", "refused"}) =>
          LET size == IF fres.op = "write_data" THEN FileDataSize ELSE FileExtSize
          IN  IF ALen(fres.arg) # size
              THEN /\ fres.tag = "Err"
                   /\ fres.val = "InvalidDimensions"
                   /\ disk = fres.before.disk
                   /\ mf = fres.before.mf
              ELSE /\ fres.tag = "Ok"
                   /\ fpc = "written"

\* a write of the right length succeeded right after a refused one
C28_Witness ==
    /\ fpc = "written"
    /\ fres.after_refusal
    /\ fres.op = "write_data"

\* create refused a header while a file was at the path, which is intact
C28_WitnessCreate ==
    /\ fpc = "create_failed"
    /\ disk = OldFile

\* write_ext_header refused a slice of the wrong length
C28_WitnessRefused ==
    /\ fpc = "refused"
    /\ fres.op = "write_ext_header"
    /\ ALen(fres.arg) > 0

---------------------------------------------------------------------------
(* Typed writes through an edited MrcViewMut                              *)

\* C29: after any header_mut() edits, data_mut() pokes and typed writes,
\* every write_T(values) returns, and either returns an error with every
\* byte of the buffer (extension and data) as before, or succeeds, which
\* happens only when the header's current data_size equals both the data
\* slice's length and values.len() times the sample width, and then every
\* byte of the data slice holds the encoding of values in the header's
\* current byte order and every byte outside it is as before.
C29_WriteWholeRegionOrNothing ==
    (vpc \in {"returned", "panicked"}) =>
        LET mode == ModeOfOp(vres.op)
            w    == WidthOf(mode)
            e    == IF BigStamp(view.header.machst) THEN "BigEndian"
                    ELSE "LittleEndian"
            from == view.data.off
            to   == view.data.off + view.data.len
        IN  /\ vres.tag \in {"Ok", "Err"}
            /\ ALen(vbuf) = ALen(vres.before)
            /\ (vres.tag = "Err") => (vbuf = vres.before)
            /\ (vres.tag = "Ok") =>
                  /\ data_size(view.header).val = view.data.len
                  /\ Len(vvals) * w = view.data.len
                  /\ \A i \in DOMAIN vbuf :
                        IF (i >= from) /\ (i < to)
                        THEN vbuf[i] = FileByte(mode, vvals[((i - from) \div w) + 1],
                                                e, (i - from) % w)
                        ELSE vbuf[i] = vres.before[i]

---------------------------------------------------------------------------
(* encode_to_bytes as the inverse of decode_from_bytes                    *)

\* every byte of b is the one the header h puts there: the numeric fields
\* at their table offsets in the byte order of h's machine stamp, the
\* reserved region, the origin, map, machst and the label area
EveryByteFrom(b, h) ==
    /\ DOMAIN b = 0..1023
    /\ \A i \in 0..3 : b[212 + i] = h.machst[i]
    /\ \A fo \in NumericFieldTable : HoldsAt(b, fo[2], h[fo[1]])
    /\ \A i \in 0..2 : HoldsAt(b, 196 + (4 * i), h.origin[i])
    /\ \A i \in 0..3 : b[208 + i] = h.map[i]
    /\ \A i \in 0..99 : b[96 + i] = h.extra[i]
    /\ \A i \in 0..799 : b[224 + i] = h.label[i]

\* the offsets EveryByteFrom speaks of
OffsetsNamed ==
    UNION { fo[2]..(fo[2] + 3) : fo \in NumericFieldTable }
      \cup (96..215) \cup (224..1023)

\* C30: encode_to_bytes assigns every one of the 1024 output bytes, whatever
\* the buffer held before (all 0x00 or all 0xFF), and encoding the header
\* decoded from any 1024 bytes b, with a recognised or an unrecognised
\* machine stamp and floats kept as bit patterns, gives b back byte for byte.
C30_EncodeInvertsDecode ==
    /\ OffsetsNamed = 0..1023
    /\ (cpc = "encoded") => EveryByteFrom(out, r)
    /\ (cpc = "reencoded") =>
          /\ EveryByteFrom(out, dec)
          /\ \A i \in 0..1023 : out[i] = raw[i]

\* bytes with an unrecognised stamp and a first field that is no palindrome
\* were decoded and encoded back
C30_Witness ==
    /\ cpc = "reencoded"
    /\ raw[212] = 68 /\ raw[213] = 17
    /\ raw[0] # raw[3]
    /\ out = raw

\* the same for bytes with the big-endian stamp and non-zero padding
C30_WitnessBig ==
    /\ cpc = "reencoded"
    /\ raw[212] = 17 /\ raw[213] = 17 /\ raw[214] = 3
    /\ raw[0] # raw[3]
    /\ out = raw

===========================================================================
